---- MODULE Spec2Model ----
(***************************************************************************)
(* A model of astropost: the Gmail client wrapper (src/astropost/client.py)*)
(* and the command-line front end (src/astropost/main.py).                 *)
(*                                                                         *)
(* Text is modelled as a sequence of one-character strings, so that        *)
(* prefix tests, lower-casing and stripping are computed, not assumed.     *)
(* The mail provider is the environment: every answer it gives is an input *)
(* of the action that asks.  One run of the command-line program is        *)
(* pc = "idle" -> ... -> "done"; Exit starts the next run.                 *)
(***************************************************************************)
EXTENDS Integers, Sequences, FiniteSets, TLC

VARIABLES
    pc,      \* position of the program: "idle", "scan_fetch", "scan_prompt", "scan_view", "scan_loop", "done", "repeated"
    op,      \* the operation the last step performed
    inp,     \* the inputs that operation was given (arguments and provider answers)
    calls,   \* the provider requests (and prompts) that operation issued, in order
    ret,     \* how that operation ended: a returned value or a raised exception
    emails,  \* cmd_scan: the current listing (a sequence of Email records)
    viewed,  \* cmd_scan: the message open in the single-message view, or None
    self,  \* the fields of the GmailClient object the program holds
    again    \* how the operation ended when it was run once more on the same inputs

vars == <<pc, op, inp, calls, ret, emails, viewed, self, again>>

----------------------------------------------------------------------------
(* Bounds of the model *)

\* how many times the provider answers one request before the script ends
MaxAsk == 4
\* number of vocabulary words a generated subject line is made of
MaxWords == 2
\* number of parts of a generated multipart message
MaxParts == 2
\* number of symbols of a generated HTML document
MaxHtmlLen == 4
\* number of messages the provider lists
MaxList == 2
\* number of words that follow the command word of a scan command
MaxNums == 2
\* the most symbols of a text given to _sanitize_body
MaxText == 6

----------------------------------------------------------------------------
(* Text *)

\* Python's None where an identifier (an atom) is expected, and where text is
None == "None"
NoneStr == <<"None">>

LowerChar(c) ==
    CASE c = "R" -> "r"
      [] c = "E" -> "e"
      [] c = "F" -> "f"
      [] c = "W" -> "w"
      [] c = "D" -> "d"
      [] c = "N" -> "n"
      [] c = "S" -> "s"
      [] c = "A" -> "a"
      [] c = "U" -> "u"
      [] c = "Q" -> "q"
      [] c = "C" -> "c"
      [] OTHER -> c

\* str.lower()
Lower(s) == [i \in 1..Len(s) |-> LowerChar(s[i])]

\* str.startswith(p)
StartsWith(s, p) == Len(s) >= Len(p) /\ SubSeq(s, 1, Len(p)) = p

IsSpace(c) == c \in {" ", "\n", "\t"}

RECURSIVE LStrip(_)
LStrip(s) == IF s # <<>> /\ IsSpace(Head(s)) THEN LStrip(Tail(s)) ELSE s

RECURSIVE RStrip(_)
RStrip(s) ==
    IF s # <<>> /\ IsSpace(s[Len(s)]) THEN RStrip(SubSeq(s, 1, Len(s) - 1)) ELSE s

\* str.strip()
Strip(s) == RStrip(LStrip(s))

\* the first index >= i that holds the symbol c, or 0
RECURSIVE Find(_, _, _)
Find(s, c, i) == IF i > Len(s) THEN 0 ELSE IF s[i] = c THEN i ELSE Find(s, c, i + 1)

\* Python truthiness of an Optional[str] holding text, of a list, and of an
\* Optional[str] holding an identifier
Truthy(v) == v # NoneStr /\ v # <<>>
TruthyId(v) == v # None /\ v # ""

----------------------------------------------------------------------------
(* Outcomes, provider answers and the retry policy *)

Return(v) == [kind |-> "return", value |-> v]
Raise(e) == [kind |-> "raise", exc |-> e]
RaiseHttp(status) == [kind |-> "raise", exc |-> "HttpError", status |-> status]

\* what the provider does with one request: it serves it, fails it with an
\* HTTP status (googleapiclient's HttpError), or the transport fails (OSError)
IsHttp(a) == a \in {"Http403", "Http500"}
Status(a) == IF a = "Http403" THEN 403 ELSE 500

\* The provider's answers to the 1st, 2nd, ... asking of one request: k HTTP
\* failures (all 403, all 500, or the two in turn), then the request is
\* served or the transport fails.
Scripts ==
    {[i \in 1..MaxAsk |-> IF i <= k THEN p[i] ELSE t] :
        k \in 0..MaxAsk,
        p \in {[i \in 1..MaxAsk |-> "Http403"], [i \in 1..MaxAsk |-> "Http500"],
               [i \in 1..MaxAsk |-> IF i % 2 = 1 THEN "Http500" ELSE "Http403"]},
        t \in {"ok", "OSError"}}

Printed(t) == [api |-> "print", text |-> t]
Requests(log, api) == SelectSeq(log, LAMBDA c : c.api = api)

\* stop_after_attempt(n) of the four @retry decorators
ListMaxAttempts == 3
GetMaxAttempts == 3
ModifyMaxAttempts == 3
TrashMaxAttempts == 3

\* tenacity's @retry(stop=stop_after_attempt(stop),
\* retry=retry_if_exception_type(HttpError)): outs[i] is what the i-th
\* invocation of the wrapped function does.  An HttpError is retried until
\* the stop, then RetryError is raised (reraise is not set); anything else,
\* a return or another exception, ends the call at once.
RECURSIVE RetryFrom(_, _, _, _)
RetryFrom(outs, i, stop, log) ==
    LET r == outs[i]
        log2 == log \o r.calls
    IN  IF r.kind = "raise" /\ r.exc = "HttpError"
        THEN IF i >= stop \/ i >= Len(outs)
             THEN [calls |-> log2, attempts |-> i] @@ Raise("RetryError")
             ELSE RetryFrom(outs, i + 1, stop, log2)
        ELSE [calls |-> log2, attempts |-> i] @@ r

\* a variant that stops after the first attempt
GiveUpAtOnce(outs, stop) == RetryFrom(outs, 1, 1, <<>>)
Retry(outs, stop) == RetryFrom(outs, 1, stop, <<>>)

\* the outcome of a call without the log of what it issued
Outcome(r) == [k \in DOMAIN r \ {"calls"} |-> r[k]]

----------------------------------------------------------------------------
(* GmailClient.modify_labels and GmailClient.trash_email *)

ModifyRequest(msg_id, add_labels, remove_labels) ==
    [api |-> "modify", id |-> msg_id,
     body |-> [addLabelIds |-> add_labels, removeLabelIds |-> remove_labels]]

\* one invocation of the body of modify_labels
ModifyLabelsOnce(msg_id, add_labels, remove_labels, answer) ==
    LET req == ModifyRequest(msg_id, add_labels, remove_labels)
    IN  IF answer = "ok" THEN [calls |-> <<req>>] @@ Return(TRUE)
        ELSE IF IsHttp(answer)
        THEN [calls |-> <<req, Printed("Error modifying labels")>>]
                 @@ RaiseHttp(Status(answer))
        ELSE [calls |-> <<req>>] @@ Raise(answer)

modify_labels(msg_id, add_labels, remove_labels, script) ==
    Retry([i \in 1..MaxAsk |->
               ModifyLabelsOnce(msg_id, add_labels, remove_labels, script[i])],
          ModifyMaxAttempts)

TrashRequest(msg_id) == [api |-> "trash", id |-> msg_id]

\* one invocation of the body of trash_email
TrashEmailOnce(msg_id, answer) ==
    LET req == TrashRequest(msg_id)
    IN  IF answer = "ok" THEN [calls |-> <<req>>] @@ Return(TRUE)
        ELSE IF IsHttp(answer)
        THEN [calls |-> <<req, Printed("Error trashing email")>>]
                 @@ RaiseHttp(Status(answer))
        ELSE [calls |-> <<req>>] @@ Raise(answer)

trash_email(msg_id, script) ==
    Retry([i \in 1..MaxAsk |-> TrashEmailOnce(msg_id, script[i])],
          TrashMaxAttempts)

----------------------------------------------------------------------------
(* HTML: BeautifulSoup(html, "html.parser"), decompose, get_text *)

\* Markup is text in which a tag is one symbol.
CloseTag(e) == IF e = "script" THEN "</script>" ELSE "</style>"
Tags == {"<script>", "</script>", "<style>", "</style>", "<p>", "</p>"}

\* The text nodes of the parsed document, in document order.  html.parser
\* reads the content of a script or style element as raw text up to the
\* element's own closing tag (or the end of input); elsewhere every tag ends
\* the text node before it.  A node is [elem, text, at]: the raw-text
\* element it lies in ("" for none), its text, and where it starts.
RECURSIVE ParseFrom(_, _, _, _)
ParseFrom(html, i, mode, nodes) ==
    IF i > Len(html) THEN nodes
    ELSE LET c == html[i]
             n == Len(nodes)
             joins == n > 0 /\ nodes[n].elem = mode
                            /\ nodes[n].at + Len(nodes[n].text) = i
             added == IF joins
                      THEN [nodes EXCEPT ![n].text = @ \o <<c>>]
                      ELSE Append(nodes, [elem |-> mode, text |-> <<c>>, at |-> i])
         IN  IF mode = ""
             THEN IF c = "<script>" THEN ParseFrom(html, i + 1, "script", nodes)
                  ELSE IF c = "<style>" THEN ParseFrom(html, i + 1, "style", nodes)
                  ELSE IF c \in Tags THEN ParseFrom(html, i + 1, "", nodes)
                  ELSE ParseFrom(html, i + 1, "", added)
             ELSE IF c = CloseTag(mode) THEN ParseFrom(html, i + 1, "", nodes)
                  ELSE ParseFrom(html, i + 1, mode, added)

BeautifulSoup(html) == ParseFrom(html, 1, "", <<>>)

\* for script in soup(["script", "style"]): script.decompose()
\* a variant that removes the script elements only
DecomposeScripts(nodes) == SelectSeq(nodes, LAMBDA n : n.elem # "script")
Decompose(nodes) == SelectSeq(nodes, LAMBDA n : n.elem \notin {"script", "style"})

RECURSIVE Join(_, _)
Join(texts, sep) ==
    IF texts = <<>> THEN <<>>
    ELSE IF Len(texts) = 1 THEN texts[1]
    ELSE texts[1] \o sep \o Join(Tail(texts), sep)

\* soup.get_text(separator=sep)
GetText(nodes, sep) == Join([k \in 1..Len(nodes) |-> nodes[k].text], sep)

----------------------------------------------------------------------------
(* GmailClient._get_email_body *)

\* "attachment" in str(part.get("Content-Disposition")): the test is a
\* case-sensitive substring test on the header's text, "None" when absent
IsAttachment(d) == d = "attachment; filename=a"

\* A parsed message is [multipart, parts]: the parts in walk() order, each
\* [ctype, disp, payload]; a message that is not multipart is its own only
\* part.  walk() starts with the multipart container, whose decoded payload
\* is None.
Walk(m) ==
    <<[ctype |-> "multipart/mixed", disp |-> None, payload |-> NoneStr]>> \o m.parts

\* the for loop over walk(): acc is [text, html], the two Optional[str]
RECURSIVE WalkParts(_, _)
WalkParts(parts, acc) ==
    IF parts = <<>> THEN acc
    ELSE LET part == Head(parts)
             next == IF IsAttachment(part.disp) THEN acc
                     ELSE IF ~Truthy(part.payload) THEN acc
                     ELSE IF part.ctype = "text/plain"
                          THEN [acc EXCEPT !.text = part.payload]
                     ELSE IF part.ctype = "text/html"
                          THEN [acc EXCEPT !.html = part.payload]
                     ELSE acc
         IN  WalkParts(Tail(parts), next)

\* the else branch: a message that is not multipart
SinglePart(m, acc) ==
    LET part == m.parts[1]
    IN  IF ~Truthy(part.payload) THEN acc
        ELSE IF part.ctype = "text/html" THEN [acc EXCEPT !.html = part.payload]
        ELSE [acc EXCEPT !.text = part.payload]

\* text_part and html_part when the if/else has run
BodyParts(m) ==
    LET acc0 == [text |-> NoneStr, html |-> NoneStr]
    IN  IF m.multipart THEN WalkParts(Walk(m), acc0) ELSE SinglePart(m, acc0)

\* the text nodes left of the HTML part
Soup(html_part) == Decompose(BeautifulSoup(html_part))

\* the final if/elif: acc is [text, html]
BodyText(acc) ==
    IF Truthy(acc.text) THEN Strip(acc.text)
    ELSE IF Truthy(acc.html) THEN Strip(GetText(Soup(acc.html), <<"\n">>))
    ELSE <<>>

get_email_body(m) == BodyText(BodyParts(m))

----------------------------------------------------------------------------
(* GmailClient.get_email_details and models.Email *)

NoSubject == <<"(", "N", "o", " ", "S", "u", "b", "j", "e", "c", "t", ")">>

\* Python's  v or default
OrElse(v, default) == IF Truthy(v) THEN v ELSE default

NoneEmail == [none |-> TRUE]

\* What the provider's get returns is [threadId, snippet, subject, from,
\* date, mime]: the resource's fields and the parsed raw message; a header
\* that is absent reads as None.
Email(msg_id, msg) ==
    [none |-> FALSE,
     id |-> msg_id,
     threadId |-> msg.threadId,
     sender |-> OrElse(msg.from, <<"U", "n", "k", "n", "o", "w", "n">>),
     subject |-> OrElse(msg.subject, NoSubject),
     date |-> OrElse(msg.date, <<>>),
     snippet |-> msg.snippet,
     body |-> get_email_body(msg.mime)]

GetRequest(msg_id) == [api |-> "get", id |-> msg_id, format |-> "raw"]

\* a variant that raises the HttpError again, as modify_labels does
GetEmailDetailsRaising(msg_id, answer, msg) ==
    IF answer = "ok" THEN [calls |-> <<GetRequest(msg_id)>>] @@ Return(Email(msg_id, msg))
    ELSE IF IsHttp(answer)
    THEN [calls |-> <<GetRequest(msg_id), Printed("Error fetching email")>>]
             @@ RaiseHttp(Status(answer))
    ELSE [calls |-> <<GetRequest(msg_id)>>] @@ Raise(answer)

\* one invocation of the body of get_email_details: the HttpError is caught
\* inside it, so the retry decorator never sees one
GetEmailDetailsOnce(msg_id, answer, msg) ==
    LET req == GetRequest(msg_id)
    IN  IF answer = "ok" THEN [calls |-> <<req>>] @@ Return(Email(msg_id, msg))
        ELSE IF IsHttp(answer)
        THEN [calls |-> <<req, Printed("Error fetching email")>>]
                 @@ Return(NoneEmail)
        ELSE [calls |-> <<req>>] @@ Raise(answer)

\* env is [script, msg]: the provider's answers and the message it holds
get_email_details(msg_id, env) ==
    Retry([i \in 1..MaxAsk |-> GetEmailDetailsOnce(msg_id, env.script[i], env.msg)],
          GetMaxAttempts)

----------------------------------------------------------------------------
(* GmailClient.list_emails *)

\* a variant that looks at label_ids first and sends the query along
ListRequestLabelsFirst(max_results, query, label_ids) ==
    [api |-> "list",
     kwargs |-> [userId |-> "me", maxResults |-> max_results]
                @@ (IF Truthy(label_ids) THEN [labelIds |-> label_ids]
                    ELSE [labelIds |-> <<"INBOX">>])
                @@ (IF Truthy(query) THEN [q |-> query]
                    ELSE [maxResults |-> max_results])]

\* the list request with its kwargs: q if there is a query, else labelIds
ListRequest(max_results, query, label_ids) ==
    [api |-> "list",
     kwargs |-> [userId |-> "me", maxResults |-> max_results]
                @@ (IF Truthy(query) THEN [q |-> query]
                    ELSE IF Truthy(label_ids) THEN [labelIds |-> label_ids]
                    ELSE [labelIds |-> <<"INBOX">>])]

\* the for loop over the message references: acc is [calls, list, kind, exc];
\* an exception of get_email_details ends the loop
RECURSIVE FetchAll(_, _, _)
\* one pass of the loop: d is what get_email_details did
FetchOne(refs, gets, acc, d) ==
    IF d.kind = "raise"
    THEN [calls |-> acc.calls \o d.calls, list |-> acc.list,
          kind |-> "raise", exc |-> d.exc]
    ELSE FetchAll(Tail(refs), Tail(gets),
                  [acc EXCEPT !.calls = @ \o d.calls,
                              !.list = IF d.value.none THEN @ ELSE Append(@, d.value)])

FetchAll(refs, gets, acc) ==
    IF refs = <<>> THEN acc
    ELSE FetchOne(refs, gets, acc, get_email_details(Head(refs), Head(gets)))

\* one invocation of the body of list_emails; refs are the ids the provider
\* lists and gets[k] is the environment of the fetch of refs[k]
\* return email_list, unless the loop raised
Listed(f) ==
    IF f.kind = "raise" THEN [calls |-> f.calls] @@ Raise(f.exc)
    ELSE [calls |-> f.calls] @@ Return(f.list)

ListEmailsOnce(max_results, query, label_ids, answer, refs, gets) ==
    LET req == ListRequest(max_results, query, label_ids)
    IN  IF answer = "ok"
        THEN Listed(FetchAll(refs, gets,
                             [calls |-> <<req>>, list |-> <<>>,
                              kind |-> "return", exc |-> None]))
        ELSE IF IsHttp(answer)
        THEN IF Status(answer) = 403
             THEN [calls |-> <<req, Printed("Permission denied")>>] @@ RaiseHttp(403)
             ELSE [calls |-> <<req>>] @@ RaiseHttp(Status(answer))
        ELSE [calls |-> <<req>>] @@ Raise(answer)

\* env is [script, refs, gets]
list_emails(max_results, query, label_ids, env) ==
    Retry([i \in 1..MaxAsk |->
               ListEmailsOnce(max_results, query, label_ids,
                              env.script[i], env.refs, env.gets)],
          ListMaxAttempts)

----------------------------------------------------------------------------
(* GmailClient._sanitize_body *)

\* the fence of a markdown code block, three backquotes, is one symbol
Fence == "[fence]"
\* \w of the regular expression
IsWord(c) == c \in {"a", "b", "H", "i", "R", "e", "r", "E", "F", "f", "w", "W", "d", "D"}

\* the first index >= i that holds no word character
RECURSIVE SkipWord(_, _)
SkipWord(s, i) == IF i <= Len(s) /\ IsWord(s[i]) THEN SkipWord(s, i + 1) ELSE i

\* re.search(fence (?:\w+)? \n (.*?) fence, text, re.DOTALL) from index i on:
\* [found, group1]
RECURSIVE FenceSearch(_, _)
\* a is the opening fence, b the index after its language word, z the
\* closing fence (0 when b holds no newline or no fence follows)
FenceClosed(s, a, b, z) ==
    IF z # 0 THEN [found |-> TRUE, group1 |-> SubSeq(s, b + 1, z - 1)]
    ELSE FenceSearch(s, a + 1)
FenceOpened(s, a, b) ==
    FenceClosed(s, a, b,
                IF b <= Len(s) /\ s[b] = "\n" THEN Find(s, Fence, b + 1) ELSE 0)
FenceAt(s, a) ==
    IF a = 0 THEN [found |-> FALSE, group1 |-> <<>>]
    ELSE FenceOpened(s, a, SkipWord(s, a + 1))
FenceSearch(s, i) == FenceAt(s, Find(s, Fence, i))

\* a variant that leaves the content of the block as it is
SanitizedUnstripped(text, match) == IF match.found THEN match.group1 ELSE Strip(text)

Sanitized(text, match) == IF match.found THEN Strip(match.group1) ELSE Strip(text)

sanitize_body(text) == Sanitized(text, FenceSearch(text, 1))

----------------------------------------------------------------------------
(* GmailClient.send_email *)

\* markdown.markdown and the HTML wrapper are kept as constructors: the
\* rendered page is a function of the text it was rendered from
Markdown(t) == <<"<markdown>">> \o t \o <<"</markdown>">>
create_html_wrapper(html_content) ==
    <<"<html><body><div>">> \o html_content \o <<"</div></body></html>">>

\* str.replace(chr(10), "<br>")
ReplaceNewlines(t) == [i \in 1..Len(t) |-> IF t[i] = "\n" THEN "<br>" ELSE t[i]]

ReplyQuote(original) ==
    <<"\n", "\n", "On ">> \o original.date \o <<", ">> \o original.sender
        \o <<" wrote:", "\n">> \o original.snippet

ForwardQuote(original) ==
    <<"\n", "\n", "---------- Forwarded message ---------", "\n", "From: ">>
        \o original.sender \o <<"\n", "Date: ">> \o original.date
        \o <<"\n", "Subject: ">> \o original.subject \o <<"\n", "\n">>
        \o original.body

\* the subject of a reply when the caller gave none
ReplySubject(original_subject) ==
    IF ~StartsWith(Lower(original_subject), <<"r", "e", ":">>)
    THEN <<"R", "e", ":", " ">> \o original_subject
    ELSE original_subject

\* the subject of a forward when the caller gave none
ForwardSubject(original_subject) ==
    IF ~StartsWith(Lower(original_subject), <<"f", "w", "d", ":">>)
    THEN <<"F", "w", "d", ":", " ">> \o original_subject
    ELSE original_subject

\* thread_id, subject and quoted_info before the if/elif
NoContext(subject) ==
    [calls |-> <<>>, kind |-> "return", exc |-> None,
     thread_id |-> None, subject |-> subject, quoted_info |-> NoneStr]

\* the branch  if reply_to_id:  where d is what get_email_details did
ReplyContext(subject, d) ==
    IF d.kind = "raise"
    THEN [NoContext(subject) EXCEPT !.calls = d.calls, !.kind = "raise", !.exc = d.exc]
    ELSE IF d.value.none THEN [NoContext(subject) EXCEPT !.calls = d.calls]
    ELSE [NoContext(subject) EXCEPT
            !.calls = d.calls,
            !.thread_id = d.value.threadId,
            !.subject = IF ~Truthy(subject) THEN ReplySubject(d.value.subject)
                        ELSE subject,
            !.quoted_info = ReplyQuote(d.value)]

\* the branch  elif forward_id:  where d is what get_email_details did
ForwardContext(subject, d) ==
    IF d.kind = "raise"
    THEN [NoContext(subject) EXCEPT !.calls = d.calls, !.kind = "raise", !.exc = d.exc]
    ELSE IF d.value.none THEN [NoContext(subject) EXCEPT !.calls = d.calls]
    ELSE [NoContext(subject) EXCEPT
            !.calls = d.calls,
            !.subject = IF ~Truthy(subject) THEN ForwardSubject(d.value.subject)
                        ELSE subject,
            !.quoted_info = ForwardQuote(d.value)]

\* a variant that looks at forward_id first
ContextForwardFirst(subject, reply_to_id, forward_id, get) ==
    IF TruthyId(forward_id)
    THEN ForwardContext(subject, get_email_details(forward_id, get))
    ELSE IF TruthyId(reply_to_id)
    THEN ReplyContext(subject, get_email_details(reply_to_id, get))
    ELSE NoContext(subject)

\* "Handle Reply/Forward Context": [calls, kind, exc, thread_id, subject,
\* quoted_info] once the if/elif has run; kind is "raise" when the fetch raised
Context(subject, reply_to_id, forward_id, get) ==
    IF TruthyId(reply_to_id)
    THEN ReplyContext(subject, get_email_details(reply_to_id, get))
    ELSE IF TruthyId(forward_id)
    THEN ForwardContext(subject, get_email_details(forward_id, get))
    ELSE NoContext(subject)

\* the files of the working directory: path.exists(), the type
\* mimetypes.guess_type gives (None for an unknown or an encoded file)
Files == {"a.txt", "b.pdf", "c.gz"}
GuessType(path) ==
    CASE path = "a.txt" -> "text/plain"
      [] path = "b.pdf" -> "application/pdf"
      [] OTHER -> None

\* the for loop over the attachment paths: [calls, parts]
RECURSIVE Attach(_, _)
\* a variant whose loop ends at the first path that does not exist
AttachStopping(paths, acc) ==
    IF paths = <<>> THEN acc
    ELSE IF Head(paths) \notin Files
    THEN [acc EXCEPT !.calls = Append(@, Printed("Attachment not found"))]
    ELSE Attach(Tail(paths),
                [acc EXCEPT !.parts =
                    Append(@, [filename |-> Head(paths),
                               ctype |-> IF GuessType(Head(paths)) = None
                                         THEN "application/octet-stream"
                                         ELSE GuessType(Head(paths))])])

Attach(paths, acc) ==
    IF paths = <<>> THEN acc
    ELSE LET path == Head(paths)
             ctype == IF GuessType(path) = None THEN "application/octet-stream"
                      ELSE GuessType(path)
         IN  IF path \notin Files
             THEN Attach(Tail(paths),
                         [acc EXCEPT !.calls = Append(@, Printed("Attachment not found"))])
             ELSE Attach(Tail(paths),
                         [acc EXCEPT !.parts = Append(@, [filename |-> path,
                                                          ctype |-> ctype])])

\* EmailMessage refuses a header value that holds a linefeed or a carriage return
HasLinefeed(t) == \E i \in 1..Len(t) : t[i] \in {"\n", "\r"}

\* An RFC 2047 encoded word is its text between the symbols "=?" and "?=".
\* msg["subject"] of a message read with message_from_bytes gives the header
\* as it is written, its encoded words included; EmailMessage's header
\* setter reads the value and decodes the encoded words it holds.
EncodedWord(t) == <<"=?">> \o t \o <<"?=">>

RECURSIVE DecodeWords(_)
\* a is where the first encoded word opens and z where it closes (0 for none)
DecodeAt(s, a, z) ==
    IF a = 0 \/ z = 0 THEN s
    ELSE SubSeq(s, 1, a - 1) \o SubSeq(s, a + 1, z - 1)
             \o DecodeWords(SubSeq(s, z + 1, Len(s)))
DecodeFrom(s, a) == DecodeAt(s, a, IF a = 0 THEN 0 ELSE Find(s, "?=", a + 1))
DecodeWords(s) == DecodeFrom(s, Find(s, "=?", 1))

\* base64.urlsafe_b64encode(message.as_bytes()).decode()
Base64(message) == [urlsafe_b64 |-> message]

SendRequest(create_message) == [api |-> "send", body |-> create_message]

\* the attachments of the message: [calls, parts]
Attachments(paths) ==
    IF Truthy(paths) THEN Attach(paths, [calls |-> <<>>, parts |-> <<>>])
    ELSE [calls |-> <<>>, parts |-> <<>>]

\* the EmailMessage: its headers, its two alternatives and its attachments
Message(a, ctx, clean_body, parts) ==
    LET quoted == Truthy(ctx.quoted_info)
        html_rendered == Markdown(clean_body)
    IN  [To |-> Join(a.recipients, <<",", " ">>),
         From |-> IF Truthy(a.from_address) THEN a.from_address ELSE <<"me">>,
         Subject |-> IF ctx.subject = NoneStr THEN <<>> ELSE DecodeWords(ctx.subject),
         Cc |-> IF Truthy(a.cc) THEN Join(a.cc, <<",", " ">>) ELSE NoneStr,
         Bcc |-> IF Truthy(a.bcc) THEN Join(a.bcc, <<",", " ">>) ELSE NoneStr,
         text |-> clean_body \o (IF quoted THEN ctx.quoted_info ELSE <<>>),
         html |-> create_html_wrapper(
                      IF quoted
                      THEN html_rendered \o <<"<br><br><blockquote>">>
                               \o ReplaceNewlines(ctx.quoted_info) \o <<"</blockquote>">>
                      ELSE html_rendered),
         attachments |-> parts]

\* a variant that leaves the thread out of the request
CreateMessageUnthreaded(message, thread_id) == [raw |-> Base64(message)]

CreateMessage(message, thread_id) ==
    IF TruthyId(thread_id)
    THEN [raw |-> Base64(message), threadId |-> thread_id]
    ELSE [raw |-> Base64(message)]

\* a variant wrapped in the retry policy of the other methods
DeliverRetried(log, create_message, env) ==
    IF env.send = "ok"
    THEN [calls |-> Append(log, SendRequest(create_message))] @@ Return(env.id)
    ELSE IF IsHttp(env.send)
    THEN [calls |-> log \o <<SendRequest(create_message), SendRequest(create_message),
                             SendRequest(create_message)>>]
             @@ Raise("RetryError")
    ELSE [calls |-> Append(log, SendRequest(create_message))] @@ Raise(env.send)

\* the send request and what comes of it; log is what was issued before
Deliver(log, create_message, env) ==
    IF env.send = "ok"
    THEN [calls |-> Append(log, SendRequest(create_message))] @@ Return(env.id)
    ELSE IF IsHttp(env.send)
    THEN [calls |-> Append(log, SendRequest(create_message))]
             @@ RaiseHttp(Status(env.send))
    ELSE [calls |-> Append(log, SendRequest(create_message))] @@ Raise(env.send)

\* send_email once the context, the clean body and the attachments are known
SendWith(a, env, ctx, clean_body, att) ==
    IF ctx.kind = "raise" THEN [calls |-> ctx.calls] @@ Raise(ctx.exc)
    ELSE IF ctx.subject # NoneStr /\ HasLinefeed(ctx.subject)
    THEN [calls |-> ctx.calls] @@ Raise("ValueError")
    ELSE Deliver(ctx.calls \o att.calls,
                 CreateMessage(Message(a, ctx, clean_body, att.parts), ctx.thread_id),
                 env)

\* a is the record of the arguments; env is [get, send, id]: the environment
\* of the fetch of the original, the provider's answer to the send and the
\* id it gives the sent message
send_email(a, env) ==
    SendWith(a, env, Context(a.subject, a.reply_to_id, a.forward_id, env.get),
             sanitize_body(a.body), Attachments(a.attachments))

----------------------------------------------------------------------------
(* GmailClient.__init__ and GmailClient._get_credentials *)

\* The token file is [file |-> "absent"], [file |-> "garbage"] (a file that
\* from_authorized_user_file refuses with ValueError) or [file |-> "creds",
\* creds |-> c].  Credentials are [origin, valid, expired, refresh_token].
\* env is [token, secrets, refresh, flow, write]: the token file, whether
\* the client-secrets file exists, and how creds.refresh, run_local_server
\* and the opening of the token file for writing end.

\* a variant that returns the credentials without writing the token file
StoredNowhere(log, token, creds, env) ==
    [calls |-> log, token |-> token] @@ Return(creds)

\* with open(self.token_path, "w") as token: token.write(creds.to_json()),
\* and return creds
Stored(log, token, creds, env) ==
    IF env.write = "ok"
    THEN [calls |-> Append(log, [api |-> "write", creds |-> creds]),
          token |-> [file |-> "creds", creds |-> creds]] @@ Return(creds)
    ELSE [calls |-> log, token |-> token] @@ Raise(env.write)

\* a variant that lets the RefreshError go to the caller
get_credentialsNoRecovery(token, env, log) ==
    IF token.file = "creds" /\ token.creds.valid
    THEN [calls |-> log, token |-> token] @@ Return(token.creds)
    ELSE IF token.file = "creds" /\ token.creds.expired /\ token.creds.refresh_token
    THEN IF env.refresh = "ok"
         THEN Stored(Append(log, [api |-> "refresh"]), token,
                     [token.creds EXCEPT !.origin = "refresh", !.valid = TRUE,
                                         !.expired = FALSE], env)
         ELSE [calls |-> Append(log, [api |-> "refresh"]), token |-> token]
                  @@ Raise(env.refresh)
    ELSE IF ~env.secrets
    THEN [calls |-> log, token |-> token, names |-> "credentials_path"]
             @@ Raise("FileNotFoundError")
    ELSE IF env.flow = "ok"
    THEN Stored(Append(log, [api |-> "flow"]), token,
                [origin |-> "flow", valid |-> TRUE, expired |-> FALSE,
                 refresh_token |-> TRUE], env)
    ELSE [calls |-> Append(log, [api |-> "flow"]), token |-> token] @@ Raise(env.flow)

RECURSIVE get_credentials(_, _, _)
get_credentials(token, env, log) ==
    IF token.file = "creds" /\ token.creds.valid
    THEN [calls |-> log, token |-> token] @@ Return(token.creds)
    ELSE IF token.file = "creds" /\ token.creds.expired /\ token.creds.refresh_token
    THEN IF env.refresh = "ok"
         THEN Stored(Append(log, [api |-> "refresh"]), token,
                     [token.creds EXCEPT !.origin = "refresh", !.valid = TRUE,
                                         !.expired = FALSE], env)
         ELSE IF env.refresh = "RefreshError"
         THEN get_credentials([file |-> "absent"], env,
                              log \o <<[api |-> "refresh"], [api |-> "unlink"]>>)
         ELSE [calls |-> Append(log, [api |-> "refresh"]), token |-> token]
                  @@ Raise(env.refresh)
    ELSE IF ~env.secrets
    THEN [calls |-> log, token |-> token, names |-> "credentials_path"]
             @@ Raise("FileNotFoundError")
    ELSE IF env.flow = "ok"
    THEN Stored(Append(log, [api |-> "flow"]), token,
                [origin |-> "flow", valid |-> TRUE, expired |-> FALSE,
                 refresh_token |-> TRUE], env)
    ELSE [calls |-> Append(log, [api |-> "flow"]), token |-> token] @@ Raise(env.flow)

\* a variant that builds the service whatever _get_credentials did
BuiltAnyway(r) == [r EXCEPT !.calls = Append(@, [api |-> "build"])]

\* self.service = build("gmail", "v1", credentials=self.creds), reached
\* when _get_credentials has returned
Built(r) ==
    IF r.kind = "raise" THEN r
    ELSE [r EXCEPT !.calls = Append(@, [api |-> "build", credentials |-> r.value])]

\* GmailClient(token_path, credentials_path)
GmailClient(env) == Built(get_credentials(env.token, env, <<>>))

\* the token files there may be: credentials that are valid have not expired
TokenFiles ==
    {[file |-> "absent"], [file |-> "garbage"]}
    \cup {[file |-> "creds", creds |-> c] :
             c \in {x \in [origin : {"stored"}, valid : BOOLEAN, expired : BOOLEAN,
                           refresh_token : BOOLEAN] : x.valid => ~x.expired}}

----------------------------------------------------------------------------
(* The inputs: arguments of the calls and what the environment holds *)

\* the sequences of at most n elements of S
SeqUpTo(S, n) == UNION {[1..k -> S] : k \in 0..n}

\* the concatenation of a sequence of sequences
RECURSIVE Flatten(_)
Flatten(ss) == IF ss = <<>> THEN <<>> ELSE Head(ss) \o Flatten(Tail(ss))

MsgIds == {"m1", "m2", "m3"}
ThreadIds == {"t1", "t2"}
AddrA == <<"a", "@", "x">>
AddrB == <<"b", "@", "x">>

Subjects ==
    {Flatten(ws) :
        ws \in SeqUpTo({<<"R", "e", ":">>, <<"r", "E", ":", " ">>, <<"F", "w", "d", ":">>,
                        <<"f", "W", "D", ":", " ">>, <<"R", "e">>, <<"H", "i">>, <<"\n">>},
                       MaxWords)}

MarkedUp == <<"<script>", "x", "</script>", "c">>
PartPayloads == {<<>>, <<" ">>, <<" ", "a">>, <<"b">>, MarkedUp}
Parts == [ctype : {"text/plain", "text/html", "application/pdf"},
          disp : {None, "attachment; filename=a", "Attachment"},
          payload : PartPayloads]
HtmlDocs ==
    SeqUpTo({"<script>", "</script>", "<style>", "</style>", "<p>", "a", " "}, MaxHtmlLen)

\* the multipart messages, the ones of one part, and the HTML pages
Messages ==
    [multipart : {TRUE}, parts : SeqUpTo(Parts, MaxParts)]
    \cup [multipart : {FALSE}, parts : {<<p>> : p \in Parts}]
    \cup {[multipart |-> FALSE,
           parts |-> <<[ctype |-> "text/html", disp |-> d, payload |-> h]>>] :
              d \in {None, "attachment; filename=a"}, h \in HtmlDocs}

PlainMime == [multipart |-> FALSE,
              parts |-> <<[ctype |-> "text/plain", disp |-> None,
                           payload |-> <<"b", "\n">>]>>]
MixedMime == [multipart |-> TRUE,
              parts |-> <<[ctype |-> "text/html", disp |-> None, payload |-> MarkedUp],
                          [ctype |-> "application/pdf",
                           disp |-> "attachment; filename=a", payload |-> <<"b">>]>>]

\* what the provider may hold under an id (a thread id is never empty)
RawMessages ==
    [threadId : ThreadIds, snippet : {<<>>, <<"s">>},
     subject : {NoneStr, <<>>, <<"H", "i">>}, from : {NoneStr, AddrA},
     date : {NoneStr, <<"d">>}, mime : {PlainMime, MixedMime}]

\* the originals a reply or a forward may refer to; a subject may be written
\* with an encoded word, in whole or after the prefix
Originals ==
    [threadId : ThreadIds, snippet : {<<"s">>},
     subject : Subjects \cup {NoneStr}
               \cup {EncodedWord(<<"R", "e", ":", " ", "H", "i">>),
                     EncodedWord(<<"F", "w", "d", ":", " ", "H", "i">>),
                     <<"R", "e", ":", " ">> \o EncodedWord(<<"H", "i">>),
                     <<"F", "w", "d", ":", " ">> \o EncodedWord(<<"H", "i">>)},
     from : {AddrB}, date : {<<"d">>}, mime : {MixedMime}]

\* the mailbox behind a listing
Mailbox(msg_id) ==
    [threadId |-> IF msg_id = "m3" THEN "t2" ELSE "t1",
     snippet |-> <<"s">>,
     subject |-> IF msg_id = "m1" THEN <<"H", "i">>
                 ELSE IF msg_id = "m2" THEN <<"r", "E", ":", " ", "H", "i">>
                 ELSE NoneStr,
     from |-> IF msg_id = "m1" THEN AddrA ELSE AddrB,
     date |-> <<"d">>,
     mime |-> IF msg_id = "m1" THEN PlainMime ELSE MixedMime]

Served == [i \in 1..MaxAsk |-> "ok"]
\* for a fetch: served, one HTTP failure before it is served, transport failure
GetScripts == {Served, [Served EXCEPT ![1] = "Http500"], [i \in 1..MaxAsk |-> "OSError"]}

\* an id is listed once
Listings(n) ==
    {refs \in SeqUpTo(MsgIds, n) : \A i, j \in 1..Len(refs) : refs[i] = refs[j] => i = j}
ListEnvs(n) ==
    UNION {{[script |-> s, refs |-> refs,
             gets |-> [k \in 1..Len(refs) |-> [script |-> g[k], msg |-> Mailbox(refs[k])]]] :
               s \in Scripts, g \in [1..Len(refs) -> GetScripts]} :
           refs \in Listings(n)}

CallerSubjects == {NoneStr, <<>>, <<"Y", "o">>}

----------------------------------------------------------------------------
(* main.py: get_client, cmd_send and main's dispatch *)

DEFAULT_FROM == <<"C", "@", "u">>

\* open(path).read() of the body file
FileText(path) == <<"f", "i", "l", "e">>

\* a call of a client method as the caller makes it
ClientCall(method, kwargs) == [api |-> method, kwargs |-> kwargs]

\* a variant that prefers a piped standard input to --body
SendBodyPipedFirst(args, env) ==
    IF TruthyId(args.input_file) THEN FileText(args.input_file)
    ELSE IF ~env.isatty THEN env.stdin
    ELSE IF Truthy(args.body) THEN args.body
    ELSE <<>>

\* the body cmd_send settles on: the file, else --body, else a piped stdin
SendBody(args, env) ==
    IF TruthyId(args.input_file) THEN FileText(args.input_file)
    ELSE IF Truthy(args.body) THEN args.body
    ELSE IF ~env.isatty THEN env.stdin
    ELSE <<>>

SendKwargs(args, body) ==
    [recipients |-> args.recipients, subject |-> args.subject,
     body |-> body, cc |-> args.cc, bcc |-> args.bcc,
     attachments |-> args.attach, reply_to_id |-> args.reply_to_id,
     forward_id |-> args.forward_id,
     from_address |-> IF Truthy(args.from_address) THEN args.from_address
                      ELSE DEFAULT_FROM]

\* cmd_send from the call of send_email on; log is what was printed before
\* and r what send_email did
Sent(log, kwargs, r) ==
    IF r.kind = "raise"
    THEN [calls |-> Append(log, ClientCall("send_email", kwargs)) \o r.calls]
             @@ Outcome(r)
    ELSE [calls |-> Append(Append(log, ClientCall("send_email", kwargs)) \o r.calls,
                           Printed("Email sent successfully"))] @@ Return(None)

CmdSendWith(args, env, body, kwargs) ==
    Sent(IF ~Truthy(body) /\ ~TruthyId(args.reply_to_id)
            /\ ~TruthyId(args.forward_id) /\ ~args.yes
         THEN <<Printed("Warning: empty body")>> ELSE <<>>,
         kwargs, send_email(kwargs, env.mail))

\* args is the argparse namespace; env is [client, isatty, stdin, mail]:
\* how the construction of GmailClient ends, the standard input, and the
\* environment of send_email
cmd_send(args, env) ==
    IF env.client # "ok" THEN [calls |-> <<>>] @@ Raise(env.client)
    ELSE IF TruthyId(args.input_file) /\ args.input_file \notin Files
    THEN [calls |-> <<>>] @@ Raise("FileNotFoundError")
    ELSE CmdSendWith(args, env, SendBody(args, env),
                     SendKwargs(args, SendBody(args, env)))

\* main(): args.func(args) inside try; an Exception is printed, not raised
main(r) ==
    IF r.kind = "raise"
    THEN [calls |-> Append(r.calls, [api |-> "print", text |-> "Error:", exc |-> r.exc])]
             @@ Return(None)
    ELSE r

----------------------------------------------------------------------------
(* main.py: handle_reply and the parsing of a scan command *)

\* str.split(): the maximal runs of characters that are not whitespace
RECURSIVE SplitFrom(_, _, _)
SplitFrom(s, cur, out) ==
    IF s = <<>> THEN (IF cur = <<>> THEN out ELSE Append(out, cur))
    ELSE IF IsSpace(Head(s))
         THEN SplitFrom(Tail(s), <<>>, IF cur = <<>> THEN out ELSE Append(out, cur))
         ELSE SplitFrom(Tail(s), Append(cur, Head(s)), out)

Split(s) == SplitFrom(s, <<>>, <<>>)

\* str.isdigit() holds of the decimal digits and of other digit characters,
\* such as a superscript two, that int() refuses
DecimalDigits == {"0", "1", "2", "3", "9"}
IsDigit(t) == t # <<>> /\ \A i \in 1..Len(t) : t[i] \in DecimalDigits \cup {"^2"}
IntOk(t) == \A i \in 1..Len(t) : t[i] \in DecimalDigits
DigitValue(c) ==
    CASE c = "0" -> 0 [] c = "1" -> 1 [] c = "2" -> 2 [] c = "3" -> 3 [] OTHER -> 9

\* int(t) of a string of decimal digits
RECURSIVE ParseInt(_)
ParseInt(t) == IF t = <<>> THEN 0
          ELSE 10 * ParseInt(SubSeq(t, 1, Len(t) - 1)) + DigitValue(t[Len(t)])

\* a variant that takes a number out of range for the first message
ValidatedUnchecked(action, digits, n) ==
    IF \E k \in 1..Len(digits) : ~IntOk(digits[k])
    THEN [action |-> action, indices |-> <<>>, error |-> TRUE, valid_indices |-> <<>>]
    ELSE [action |-> action,
          indices |-> [k \in 1..Len(digits) |-> ParseInt(digits[k])],
          error |-> FALSE,
          valid_indices |-> [k \in 1..Len(digits) |->
                                IF 1 <= ParseInt(digits[k]) /\ ParseInt(digits[k]) <= n
                                THEN ParseInt(digits[k]) ELSE 1]]

\* "Validate indices" for the digit words of the command
Validated(action, digits, n) ==
    IF \E k \in 1..Len(digits) : ~IntOk(digits[k])
    THEN [action |-> action, indices |-> <<>>, error |-> TRUE, valid_indices |-> <<>>]
    ELSE [action |-> action,
          indices |-> [k \in 1..Len(digits) |-> ParseInt(digits[k])],
          error |-> FALSE,
          valid_indices |-> SelectSeq([k \in 1..Len(digits) |-> ParseInt(digits[k])],
                                      LAMBDA i : 1 <= i /\ i <= n)]

\* "Parse command" for the words of the choice
ParseParts(parts, n) ==
    IF IsDigit(parts[1]) THEN Validated(<<"r", "e", "a", "d">>, <<parts[1]>>, n)
    ELSE IF Len(parts) > 1 THEN Validated(parts[1], SelectSeq(Tail(parts), IsDigit), n)
    ELSE Validated(<<"u", "n", "k", "n", "o", "w", "n">>, <<>>, n)

\* "Parse command" and "Validate indices": [action, indices, valid_indices,
\* error]; error says that an int() raised ValueError
Parse(choice, n) == ParseParts(Split(choice), n)

Prompted(q, answer) == [api |-> "prompt", text |-> q, answer |-> answer]

ReplyKwargs(email_details, body) ==
    [recipients |-> <<email_details.sender>>, subject |-> <<>>,
     body |-> body, cc |-> NoneStr, bcc |-> NoneStr,
     attachments |-> NoneStr, reply_to_id |-> email_details.id,
     forward_id |-> None, from_address |-> DEFAULT_FROM]

\* the try/except of handle_reply: r is what send_email did
Replied(kwargs, r) ==
    [calls |-> Append(<<Prompted("Enter your reply", kwargs.body),
                        ClientCall("send_email", kwargs)>> \o r.calls,
                      IF r.kind = "raise" THEN Printed("Failed to send reply")
                      ELSE Printed("Reply sent!"))] @@ Return(None)

\* env is [body, mail]: what the user types and the environment of send_email
handle_reply(email_details, env) ==
    IF Lower(env.body) = <<"c", "a", "n", "c", "e", "l">>
    THEN [calls |-> <<Prompted("Enter your reply", env.body)>>] @@ Return(None)
    ELSE Replied(ReplyKwargs(email_details, env.body),
                 send_email(ReplyKwargs(email_details, env.body), env.mail))

----------------------------------------------------------------------------
(* main.py: cmd_scan *)

Archive == <<"INBOX">>
Unread == <<"UNREAD">>

\* A step of cmd_scan ends as [calls, kind, ..., next, viewed]: next is where
\* the loop goes ("scan_loop": the top of the while loop, "scan_view": the
\* prompt of the single-message view, "done": cmd_scan is left).
Goes(r, next, full_email) == r @@ [next |-> next, viewed |-> full_email]

\* the client call of a multi-action and of the view, as the loop makes it
ActionCall(action, msg_id) ==
    IF action = <<"d">> THEN ClientCall("trash_email", [msg_id |-> msg_id])
    ELSE IF action = <<"a">>
    THEN ClientCall("modify_labels", [msg_id |-> msg_id, remove_labels |-> Archive])
    ELSE ClientCall("modify_labels", [msg_id |-> msg_id, add_labels |-> Unread])

\* a variant whose archive adds the label and whose unread removes it
ActionDoneInverted(action, msg_id, script) ==
    IF action = <<"d">> THEN trash_email(msg_id, script)
    ELSE IF action = <<"a">> THEN modify_labels(msg_id, Archive, <<>>, script)
    ELSE modify_labels(msg_id, <<>>, Unread, script)

\* what that call does
ActionDone(action, msg_id, script) ==
    IF action = <<"d">> THEN trash_email(msg_id, script)
    ELSE IF action = <<"a">> THEN modify_labels(msg_id, <<>>, Archive, script)
    ELSE modify_labels(msg_id, Unread, <<>>, script)

ActionSaid(action, target_idx) ==
    [api |-> "print",
     text |-> IF action = <<"d">> THEN "Deleted #"
              ELSE IF action = <<"a">> THEN "Archived #" ELSE "Unread #",
     idx |-> target_idx]

\* the for loop of the multi-action: scripts[k] is the provider's script for
\* the k-th valid index
RECURSIVE MultiAction(_, _, _, _, _)
\* one pass: r is what the client call did
MultiOne(action, listing, idxs, scripts, log, r) ==
    IF r.kind = "raise" THEN [calls |-> log \o r.calls] @@ Outcome(r)
    ELSE MultiAction(action, listing, Tail(idxs), Tail(scripts),
                     Append(log \o r.calls, ActionSaid(action, Head(idxs))))

MultiAction(action, listing, idxs, scripts, log) ==
    IF idxs = <<>> THEN [calls |-> log] @@ Return(None)
    ELSE MultiOne(action, listing, idxs, scripts,
                  Append(log, ActionCall(action, listing[Head(idxs)].id)),
                  ActionDone(action, listing[Head(idxs)].id, Head(scripts)))

\* where the loop goes when the multi-action has run
MultiGoes(r) == Goes(r, IF r.kind = "raise" THEN "done" ELSE "scan_loop", NoneEmail)

\* "Single Read Action": d is what get_email_details did, log what was
\* issued before
ReadGoes(log, d) ==
    IF d.kind = "raise" THEN Goes([calls |-> log \o d.calls] @@ Outcome(d), "done", NoneEmail)
    ELSE IF d.value.none
    THEN Goes([calls |-> log \o d.calls] @@ Return(None), "scan_loop", NoneEmail)
    ELSE Goes([calls |-> log \o d.calls] @@ Return(None), "scan_view", d.value)

\* elif action == "r": d is what get_email_details did
ReplyGoes(log, d, env) ==
    IF d.kind = "raise" THEN Goes([calls |-> log \o d.calls] @@ Outcome(d), "done", NoneEmail)
    ELSE IF d.value.none
    THEN Goes([calls |-> log \o d.calls] @@ Return(None), "scan_loop", NoneEmail)
    ELSE Goes([calls |-> log \o d.calls \o handle_reply(d.value, env.reply).calls]
                  @@ Return(None), "scan_loop", NoneEmail)

Fetching(log, msg_id) ==
    Append(log, ClientCall("get_email_details", [msg_id |-> msg_id]))

\* a variant whose multi-action goes on when the confirmation is declined
DispatchUnconfirmed(listing, p, env, asked) ==
    IF p.error THEN Goes([calls |-> asked] @@ Raise("ValueError"), "done", NoneEmail)
    ELSE IF p.valid_indices = <<>>
    THEN Goes([calls |-> IF p.action # <<"u", "n", "k", "n", "o", "w", "n">>
                              /\ p.action # <<"r", "e", "a", "d">>
                         THEN Append(asked, Printed("No valid email numbers provided."))
                         ELSE IF p.action = <<"r", "e", "a", "d">> /\ p.indices # <<>>
                         THEN Append(asked, Printed("Invalid email number."))
                         ELSE asked] @@ Return(None),
              "scan_loop", NoneEmail)
    ELSE IF p.action = <<"r", "e", "a", "d">> /\ Len(p.valid_indices) = 1
    THEN ReadGoes(Fetching(asked, listing[p.valid_indices[1]].id),
                  get_email_details(listing[p.valid_indices[1]].id, env.get))
    ELSE IF p.action \in {<<"d">>, <<"a">>, <<"u">>}
    THEN IF p.action = <<"d">> /\ ~env.confirm
         THEN MultiGoes(MultiAction(p.action, listing, p.valid_indices, env.scripts,
                                    Append(asked, Prompted("Delete emails?", FALSE))))
         ELSE MultiGoes(MultiAction(p.action, listing, p.valid_indices, env.scripts,
                                    IF p.action = <<"d">>
                                    THEN Append(asked, Prompted("Delete emails?", TRUE))
                                    ELSE asked))
    ELSE IF p.action = <<"r">>
    THEN ReplyGoes(Fetching(asked, listing[p.valid_indices[1]].id),
                   get_email_details(listing[p.valid_indices[1]].id, env.get), env)
    ELSE Goes([calls |-> asked] @@ Return(None), "scan_loop", NoneEmail)

\* the command from "Validate indices" on: p is the parsed command, asked
\* the prompt answered
Dispatch(listing, p, env, asked) ==
    IF p.error THEN Goes([calls |-> asked] @@ Raise("ValueError"), "done", NoneEmail)
    ELSE IF p.valid_indices = <<>>
    THEN Goes([calls |-> IF p.action # <<"u", "n", "k", "n", "o", "w", "n">>
                              /\ p.action # <<"r", "e", "a", "d">>
                         THEN Append(asked, Printed("No valid email numbers provided."))
                         ELSE IF p.action = <<"r", "e", "a", "d">> /\ p.indices # <<>>
                         THEN Append(asked, Printed("Invalid email number."))
                         ELSE asked] @@ Return(None),
              "scan_loop", NoneEmail)
    ELSE IF p.action = <<"r", "e", "a", "d">> /\ Len(p.valid_indices) = 1
    THEN ReadGoes(Fetching(asked, listing[p.valid_indices[1]].id),
                  get_email_details(listing[p.valid_indices[1]].id, env.get))
    ELSE IF p.action \in {<<"d">>, <<"a">>, <<"u">>}
    THEN IF p.action = <<"d">> /\ ~env.confirm
         THEN Goes([calls |-> Append(asked, Prompted("Delete emails?", FALSE))]
                       @@ Return(None), "scan_loop", NoneEmail)
         ELSE MultiGoes(MultiAction(p.action, listing, p.valid_indices, env.scripts,
                                    IF p.action = <<"d">>
                                    THEN Append(asked, Prompted("Delete emails?", TRUE))
                                    ELSE asked))
    ELSE IF p.action = <<"r">>
    THEN ReplyGoes(Fetching(asked, listing[p.valid_indices[1]].id),
                   get_email_details(listing[p.valid_indices[1]].id, env.get), env)
    ELSE Goes([calls |-> asked] @@ Return(None), "scan_loop", NoneEmail)

\* the command from choice = choice.strip().lower() on
Chosen(listing, choice, env, asked) ==
    IF choice = <<"q">> THEN Goes([calls |-> asked] @@ Return(None), "done", NoneEmail)
    ELSE IF choice = <<"r">> \/ choice = <<>>
    THEN Goes([calls |-> asked] @@ Return(None), "scan_loop", NoneEmail)
    ELSE Dispatch(listing, Parse(choice, Len(listing)), env, asked)

\* one pass of the while loop from the prompt on; env is [confirm, scripts,
\* get, reply]
scan_command(listing, typed, env) ==
    Chosen(listing, Lower(Strip(typed)), env, <<Prompted("Action", typed)>>)

\* a label action of the view: r is what modify_labels did
Labelled(log, r, said) ==
    IF r.kind = "raise" THEN Goes([calls |-> log \o r.calls] @@ Outcome(r), "done", NoneEmail)
    ELSE Goes([calls |-> Append(log \o r.calls, Printed(said))] @@ Return(None),
              "scan_loop", NoneEmail)

\* the view from sub_choice = ....strip().lower() on
SubChosen(full_email, sub_choice, env, asked) ==
    IF sub_choice = <<>>
    THEN Goes([calls |-> asked] @@ Return(None), "scan_loop", NoneEmail)
    ELSE IF sub_choice = <<"r">>
    THEN Goes([calls |-> asked \o handle_reply(full_email, env.reply).calls]
                  @@ Return(None), "scan_loop", NoneEmail)
    ELSE IF sub_choice = <<"d">>
    THEN IF ~env.confirm
         THEN Goes([calls |-> Append(asked, Prompted("Delete email?", FALSE))]
                       @@ Return(None), "scan_view", full_email)
         ELSE Labelled(Append(Append(asked, Prompted("Delete email?", TRUE)),
                              ActionCall(<<"d">>, full_email.id)),
                       trash_email(full_email.id, env.script), "Deleted.")
    ELSE IF sub_choice = <<"a">>
    THEN Labelled(Append(asked, ActionCall(<<"a">>, full_email.id)),
                  modify_labels(full_email.id, <<>>, Archive, env.script), "Archived.")
    ELSE IF sub_choice = <<"u">>
    THEN Labelled(Append(asked, ActionCall(<<"u">>, full_email.id)),
                  modify_labels(full_email.id, Unread, <<>>, env.script),
                  "Marked as Unread.")
    ELSE Goes([calls |-> asked] @@ Return(None), "scan_view", full_email)

\* one pass of the inner while loop of the single-message view; env is
\* [confirm, script, reply]
scan_view(full_email, typed, env) ==
    SubChosen(full_email, Lower(Strip(typed)), env, <<Prompted("Select", typed)>>)

\* what the user may type at the two prompts
Typed ==
    {<<>>, <<" ">>, <<" ", "Q">>}
    \cup {Join(<<c>> \o ns, <<" ">>) :
             c \in {<<"d">>, <<"a">>, <<"u">>, <<"r">>, <<"q">>, <<"A">>, <<"x">>,
                    <<"r", "e", "a", "d">>, <<"0">>, <<"1">>, <<"2">>, <<"1", "2">>,
                    <<"^2">>},
             ns \in SeqUpTo({<<"0">>, <<"1">>, <<"2">>, <<"3">>, <<"1", "2">>, <<"x">>,
                             <<"^2">>}, MaxNums)}
SubTyped == {<<>>, <<"r">>, <<"d">>, <<"a">>, <<"u">>, <<" ", "A">>, <<"x">>}

\* for a command: served, one HTTP failure before it is served, HTTP
\* failures throughout
ScanScripts ==
    {Served, [Served EXCEPT ![1] = "Http500"], [i \in 1..MaxAsk |-> "Http500"]}
ReplyEnvs(msg_id) ==
    [body : {<<"H", "i">>, <<"C", "a", "n", "c", "e", "l">>},
     mail : [get : {[script |-> g, msg |-> Mailbox(msg_id)] :
                        g \in {Served, [Served EXCEPT ![1] = "Http500"]}},
             send : {"ok", "Http500"}, id : {"s1"}]]
NoReply == [body |-> <<>>, mail |-> [get |-> [script |-> Served, msg |-> Mailbox("m1")],
                                     send |-> "ok", id |-> "s1"]]
NoGet == [script |-> Served, msg |-> Mailbox("m1")]

\* the part of the environment the command typed can meet: p is the parsed
\* command
EnvsOf(listing, p) ==
    IF p.error \/ p.valid_indices = <<>>
    THEN [confirm : {TRUE}, scripts : {<<>>}, get : {NoGet}, reply : {NoReply}]
    ELSE [confirm : IF p.action = <<"d">> THEN BOOLEAN ELSE {TRUE},
          scripts : IF p.action \in {<<"d">>, <<"a">>, <<"u">>}
                    THEN [1..Len(p.valid_indices) -> ScanScripts] ELSE {<<>>},
          get : IF p.action \in {<<"r", "e", "a", "d">>, <<"r">>}
                THEN {[script |-> g, msg |-> Mailbox(listing[p.valid_indices[1]].id)] :
                         g \in GetScripts}
                ELSE {NoGet},
          reply : IF p.action = <<"r">> THEN ReplyEnvs(listing[p.valid_indices[1]].id)
                  ELSE {NoReply}]

CommandEnvs(listing, typed) ==
    IF Strip(typed) = <<>>
    THEN [confirm : {TRUE}, scripts : {<<>>}, get : {NoGet}, reply : {NoReply}]
    ELSE EnvsOf(listing, Parse(Lower(Strip(typed)), Len(listing)))

ViewEnvs(full_email, typed) ==
    LET sub_choice == Lower(Strip(typed))
    IN  [confirm : IF sub_choice = <<"d">> THEN BOOLEAN ELSE {TRUE},
         script : IF sub_choice \in {<<"d">>, <<"a">>, <<"u">>} THEN ScanScripts
                  ELSE {Served},
         reply : IF sub_choice = <<"r">> THEN ReplyEnvs(full_email.id) ELSE {NoReply}]

\* the listings of cmd_scan: the provider lists the newest messages first
Newest(msg_id) == IF msg_id = "m1" THEN 1 ELSE IF msg_id = "m2" THEN 2 ELSE 3
ScanListEnvs ==
    UNION {{[script |-> s, refs |-> refs,
             gets |-> [k \in 1..Len(refs) |-> [script |-> g[k], msg |-> Mailbox(refs[k])]]] :
               s \in ScanScripts,
               g \in [1..Len(refs) -> {Served, [Served EXCEPT ![1] = "Http500"]}]} :
           refs \in {l \in Listings(MaxList) :
                       \A i, j \in 1..Len(l) : i < j => Newest(l[i]) < Newest(l[j])}}

----------------------------------------------------------------------------
(* The state machine: one run of a program that uses the client *)

Init ==
    /\ pc = "idle"
    /\ op = "none"
    /\ inp = <<>>
    /\ calls = <<>>
    /\ ret = [kind |-> "none"]
    /\ emails = <<>>
    /\ viewed = NoneEmail
    /\ self = [creds |-> [origin |-> "stored", valid |-> TRUE, expired |-> FALSE,
                            refresh_token |-> TRUE],
                 service |-> "gmail"]
    /\ again = [kind |-> "none"]

\* a variant in which the call takes the service from the client
FinishAltering(name, args, r) ==
    /\ pc' = "done"
    /\ op' = name
    /\ inp' = args
    /\ calls' = r.calls
    /\ ret' = Outcome(r)
    /\ self' = [self EXCEPT !.service = "none"]
    /\ UNCHANGED <<emails, viewed, again>>

\* a call of a client method from a caller that holds a client: r is what
\* the method does
Finish(name, args, r) ==
    /\ pc' = "done"
    /\ op' = name
    /\ inp' = args
    /\ calls' = r.calls
    /\ ret' = Outcome(r)
    /\ UNCHANGED <<emails, viewed, self, again>>

CallGetEmailBody ==
    /\ pc = "idle"
    /\ \E m \in Messages :
          Finish("_get_email_body", [email_message |-> m],
                 [calls |-> <<>>] @@ Return(get_email_body(m)))

CallGetEmailDetails ==
    /\ pc = "idle"
    /\ \E id \in MsgIds, env \in [script : Scripts, msg : RawMessages] :
          Finish("get_email_details", [msg_id |-> id, env |-> env],
                 get_email_details(id, env))

CallListEmails ==
    /\ pc = "idle"
    /\ \E n \in 1..MaxList, q \in {NoneStr, <<>>, <<"q">>},
          l \in {NoneStr, <<>>, <<"UNREAD">>} :
          \E env \in ListEnvs(n) :
              Finish("list_emails",
                     [max_results |-> n, query |-> q, label_ids |-> l, env |-> env],
                     list_emails(n, q, l, env))

CallModifyLabels ==
    /\ pc = "idle"
    /\ \E id \in MsgIds, add \in {<<>>, <<"INBOX">>, <<"UNREAD">>},
          rem \in {<<>>, <<"INBOX">>, <<"UNREAD">>}, script \in Scripts :
          Finish("modify_labels",
                 [msg_id |-> id, add_labels |-> add, remove_labels |-> rem,
                  script |-> script],
                 modify_labels(id, add, rem, script))

CallTrashEmail ==
    /\ pc = "idle"
    /\ \E id \in MsgIds, script \in Scripts :
          Finish("trash_email", [msg_id |-> id, script |-> script],
                 trash_email(id, script))

\* replies and forwards, where the subject, the two ids and the original
\* vary; plain sends, where the envelope, the body and the attachments vary
CallSendEmail ==
    /\ pc = "idle"
    /\ \/ \E a \in [recipients : {<<AddrA>>}, subject : CallerSubjects,
                     body : {<<"H", "i">>}, cc : {NoneStr}, bcc : {NoneStr},
                     attachments : {NoneStr}, reply_to_id : {None, "", "m1"},
                     forward_id : {None, "m2"}, from_address : {NoneStr}],
             env \in [get : [script : GetScripts, msg : Originals],
                      send : {"ok", "Http500"}, id : {"s1"}] :
             Finish("send_email", [args |-> a, env |-> env], send_email(a, env))
       \/ \E a \in [recipients : {<<>>, <<AddrA>>, <<AddrA, AddrB>>},
                     subject : {<<"Y", "o">>},
                     body : {<<>>, <<"H", "i">>, <<" ", "H", "i", "\n">>,
                             <<Fence, "\n", "a", "\n", Fence>>,
                             <<"a", Fence, "b", "\n", " ", "a", Fence, " ">>,
                             <<"a", Fence>>},
                     cc : {NoneStr, <<>>, <<AddrB>>}, bcc : {NoneStr, <<AddrB>>},
                     attachments : {NoneStr, <<>>, <<"a.txt">>, <<"gone.txt", "b.pdf">>,
                                    <<"c.gz", "a.txt">>},
                     reply_to_id : {None}, forward_id : {None},
                     from_address : {NoneStr, AddrB}],
             env \in [get : {[script |-> Served, msg |-> Mailbox("m1")]},
                      send : {"ok", "Http500", "OSError"}, id : {"s1"}] :
             Finish("send_email", [args |-> a, env |-> env], send_email(a, env))

\* self._sanitize_body(body)
CallSanitizeBody ==
    /\ pc = "idle"
    /\ \E text \in SeqUpTo({Fence, "\n", "a", " "}, MaxText) :
          Finish("_sanitize_body", [text |-> text],
                 [calls |-> <<>>] @@ Return(sanitize_body(text)))

\* GmailClient(...) is constructed; self.creds and self.service are set
\* when _get_credentials returns
Construct ==
    /\ pc = "idle"
    /\ \E env \in [token : TokenFiles, secrets : BOOLEAN,
                   refresh : {"ok", "RefreshError", "TransportError"},
                   flow : {"ok", "OSError"}, write : {"ok", "OSError"}] :
          /\ pc' = "done"
          /\ op' = "GmailClient"
          /\ inp' = [env |-> env]
          /\ calls' = GmailClient(env).calls
          /\ ret' = Outcome(GmailClient(env))
          /\ self' = IF GmailClient(env).kind = "return"
                        THEN [creds |-> GmailClient(env).value, service |-> "gmail"]
                        ELSE self
          /\ UNCHANGED <<emails, viewed, again>>

\* astropost send ...
CmdSend ==
    /\ pc = "idle"
    /\ \E args \in [recipients : {<<AddrA>>, <<AddrA, AddrB>>}, subject : CallerSubjects,
                    body : {NoneStr, <<>>, <<"H", "i">>},
                    input_file : {None, "", "a.txt", "gone.txt"},
                    from_address : {NoneStr}, attach : {NoneStr}, cc : {NoneStr},
                    bcc : {NoneStr}, reply_to_id : {None, "m1"},
                    forward_id : {None, "m2"}, yes : BOOLEAN],
          env \in [client : {"ok", "FileNotFoundError"}, isatty : BOOLEAN,
                   stdin : {<<>>, <<"i", "n">>},
                   mail : [get : {[script |-> Served, msg |-> Mailbox("m1")]},
                           send : {"ok", "Http500"}, id : {"s1"}]] :
          Finish("cmd_send", [args |-> args, env |-> env], main(cmd_send(args, env)))

\* astropost scan: get_client, then the while loop is entered
CmdScan ==
    /\ pc = "idle"
    /\ \E client \in {"ok", "FileNotFoundError"} :
          IF client = "ok"
          THEN /\ pc' = "scan_fetch"
               /\ op' = "cmd_scan"
               /\ inp' = [client |-> client]
               /\ UNCHANGED <<calls, ret, emails, viewed, self, again>>
          ELSE Finish("cmd_scan", [client |-> client],
                      main([calls |-> <<>>] @@ Raise(client)))

\* a step of cmd_scan that ends as r (see Goes); an exception leaves
\* cmd_scan and is printed by main
ScanStep(name, args, r, listing) ==
    /\ pc' = IF r.kind = "raise" THEN "done" ELSE r.next
    /\ op' = name
    /\ inp' = args
    /\ calls' = main(r).calls
    /\ ret' = [kind |-> r.kind]
    /\ emails' = listing
    /\ viewed' = r.viewed
    /\ UNCHANGED <<self, again>>

\* the top of the while loop: the listing is fetched and shown
ScanFetch ==
    /\ pc = "scan_fetch"
    /\ \E env \in ScanListEnvs :
          LET r == list_emails(MaxList, NoneStr, NoneStr, env)
              log == <<ClientCall("list_emails", [max_results |-> MaxList])>> \o r.calls
          IN  IF r.kind = "raise"
              THEN ScanStep("scan_fetch", [env |-> env],
                            Goes([calls |-> log] @@ Outcome(r), "done", NoneEmail), <<>>)
              ELSE IF r.value = <<>>
              THEN ScanStep("scan_fetch", [env |-> env],
                            Goes([calls |-> Append(log, Printed("No emails found."))]
                                     @@ Return(None), "done", NoneEmail), <<>>)
              ELSE ScanStep("scan_fetch", [env |-> env],
                            Goes([calls |-> log] @@ Return(None), "scan_prompt", NoneEmail),
                            r.value)

\* the prompt "Action" is answered and the command is carried out
ScanCommand ==
    /\ pc = "scan_prompt"
    /\ \E typed \in Typed :
          \E env \in CommandEnvs(emails, typed) :
              ScanStep("scan_command", [typed |-> typed, env |-> env],
                       scan_command(emails, typed, env), emails)

\* the prompt "Select" of the single-message view is answered
ScanView ==
    /\ pc = "scan_view"
    /\ \E typed \in SubTyped :
          \E env \in ViewEnvs(viewed, typed) :
              ScanStep("scan_view", [typed |-> typed, env |-> env, full_email |-> viewed],
                       scan_view(viewed, typed, env), emails)

\* continue: console.clear() and the next pass of the while loop
ScanContinue ==
    /\ pc = "scan_loop"
    /\ pc' = "scan_fetch"
    /\ op' = "cmd_scan"
    /\ inp' = [client |-> "ok"]
    /\ calls' = <<>>
    /\ ret' = [kind |-> "none"]
    /\ emails' = <<>>
    /\ viewed' = NoneEmail
    /\ UNCHANGED <<self, again>>

\* _get_email_body or send_email is run once more on the same message, the
\* same arguments and the same environment
Repeat ==
    /\ pc = "done"
    /\ op \in {"_get_email_body", "send_email"}
    /\ pc' = "repeated"
    /\ again' = IF op = "_get_email_body"
                THEN [ret |-> Return(get_email_body(inp.email_message)), calls |-> <<>>]
                ELSE [ret |-> Outcome(send_email(inp.args, inp.env)),
                      calls |-> send_email(inp.args, inp.env).calls]
    /\ UNCHANGED <<op, inp, calls, ret, emails, viewed, self>>

\* the program ends; the next run starts afresh
Exit ==
    /\ pc \in {"done", "repeated"}
    /\ pc' = "idle"
    /\ op' = "none"
    /\ inp' = <<>>
    /\ calls' = <<>>
    /\ ret' = [kind |-> "none"]
    /\ emails' = <<>>
    /\ viewed' = NoneEmail
    /\ again' = [kind |-> "none"]
    /\ self' = [creds |-> [origin |-> "stored", valid |-> TRUE, expired |-> FALSE,
                             refresh_token |-> TRUE],
                  service |-> "gmail"]

Next ==
    \/ CallGetEmailBody
    \/ CallGetEmailDetails
    \/ CallListEmails
    \/ CallModifyLabels
    \/ CallTrashEmail
    \/ CallSendEmail
    \/ CallSanitizeBody
    \/ Construct
    \/ CmdSend
    \/ CmdScan
    \/ ScanFetch
    \/ ScanCommand
    \/ ScanView
    \/ ScanContinue
    \/ Repeat
    \/ Exit

Spec == Init /\ [][Next]_vars

----------------------------------------------------------------------------
(* The properties of send_email *)

\* the requests of the run handed to the provider's send operation
SendRequests == Requests(calls, "send")

\* the Subject header of the message sent
SentSubject == SendRequests[1].body.raw.urlsafe_b64.Subject

\* a send_email call has ended whose original, named by id, was fetched
OriginalFetched(id) ==
    /\ get_email_details(id, inp.env.get).kind = "return"
    /\ ~get_email_details(id, inp.env.get).value.none

ReplyFetched ==
    /\ pc = "done" /\ op = "send_email"
    /\ TruthyId(inp.args.reply_to_id)
    /\ OriginalFetched(inp.args.reply_to_id)

ForwardFetched ==
    /\ pc = "done" /\ op = "send_email"
    /\ ~TruthyId(inp.args.reply_to_id) /\ TruthyId(inp.args.forward_id)
    /\ OriginalFetched(inp.args.forward_id)

\* the subject the original message carries: what its Subject header says,
\* "(No Subject)" when it says nothing
OriginalSubject == DecodeWords(OrElse(inp.env.get.msg.subject, NoSubject))

Re == <<"r", "e", ":">>
Fwd == <<"f", "w", "d", ":">>

\* C1: for every send_email call with reply_to_id set whose original is
\* fetched, every request handed to the provider's send operation carries
\* a threadId, and it is the threadId of the original message.
C1_ReplyKeepsThread ==
    ReplyFetched =>
        \A i \in 1..Len(SendRequests) :
            /\ "threadId" \in DOMAIN SendRequests[i].body
            /\ SendRequests[i].body.threadId = inp.env.get.msg.threadId

\* C1: a reply to a fetched original of thread t2 was sent
C1_Witness ==
    /\ ReplyFetched
    /\ Len(SendRequests) = 1
    /\ inp.env.get.msg.threadId = "t2"
    /\ SendRequests[1].body.threadId = "t2"
    /\ ret.kind = "return"

\* C2: in a reply whose original was fetched, the Subject of the sent message
\* is the caller's subject if that is non-empty, else the original subject
\* unchanged if it starts with "re:" whatever the case, else "Re: " followed
\* by the original subject; so a reply to which the caller gave no subject
\* starts with a doubled "Re: Re:" only if the original subject did.
C2_ReplySubject ==
    (ReplyFetched /\ SendRequests # <<>>) =>
        /\ SentSubject =
              IF Truthy(inp.args.subject) THEN inp.args.subject
              ELSE IF StartsWith(Lower(OriginalSubject), Re) THEN OriginalSubject
              ELSE <<"R", "e", ":", " ">> \o OriginalSubject
        /\ (~Truthy(inp.args.subject)
               /\ StartsWith(Lower(SentSubject), Re \o <<" ">> \o Re))
              => StartsWith(Lower(OriginalSubject), Re \o <<" ">> \o Re)

\* C3: in a forward (no reply_to_id) whose original was fetched, the Subject
\* of the sent message is the caller's subject if that is non-empty, else
\* the original subject unchanged if it starts with "fwd:" whatever the
\* case, else "Fwd: " followed by the original subject.
C3_ForwardSubject ==
    (ForwardFetched /\ SendRequests # <<>>) =>
        SentSubject =
            IF Truthy(inp.args.subject) THEN inp.args.subject
            ELSE IF StartsWith(Lower(OriginalSubject), Fwd) THEN OriginalSubject
            ELSE <<"F", "w", "d", ":", " ">> \o OriginalSubject

----------------------------------------------------------------------------
(* The properties of _get_email_body *)

BodyGot == pc = "done" /\ op = "_get_email_body"

\* the parts of the message that are no attachment, have the content type
\* ctype and a payload that is not empty
BodyCandidates(m, ctype) ==
    {k \in 1..Len(m.parts) :
        /\ ~IsAttachment(m.parts[k].disp)
        /\ m.parts[k].ctype = ctype
        /\ Truthy(m.parts[k].payload)}

\* C4: if some part that is no attachment is text/plain with a non-empty
\* payload, the result is such a payload, stripped; else if some part that
\* is no attachment is text/html with a non-empty payload, the result is
\* the text derived from such a part; else the result is empty.  So a part
\* whose Content-Disposition holds "attachment" never contributes.
C4_PlainTextPreferred ==
    BodyGot =>
        IF BodyCandidates(inp.email_message, "text/plain") # {}
        THEN \E k \in BodyCandidates(inp.email_message, "text/plain") :
                ret.value = Strip(inp.email_message.parts[k].payload)
        ELSE IF BodyCandidates(inp.email_message, "text/html") # {}
        THEN \E k \in BodyCandidates(inp.email_message, "text/html") :
                ret.value = Strip(GetText(Soup(inp.email_message.parts[k].payload),
                                          <<"\n">>))
        ELSE ret.value = <<>>

\* the raw-text element the i-th symbol of the markup is read in: "" when
\* it lies in no script or style element
RECURSIVE ElementAt(_, _)
ElementAt(html, i) ==
    IF i = 1 THEN ""
    ELSE IF ElementAt(html, i - 1) = ""
    THEN (IF html[i - 1] = "<script>" THEN "script"
          ELSE IF html[i - 1] = "<style>" THEN "style" ELSE "")
    ELSE IF html[i - 1] = CloseTag(ElementAt(html, i - 1)) THEN ""
    ELSE ElementAt(html, i - 1)

\* the text of the markup that lies outside every script and style element
Outside(html) ==
    LET keep == {i \in 1..Len(html) : ElementAt(html, i) = "" /\ html[i] \notin Tags}
        F[i \in 0..Len(html)] ==
            IF i = 0 THEN <<>> ELSE IF i \in keep THEN Append(F[i - 1], html[i]) ELSE F[i - 1]
    IN  F[Len(html)]

Without(t, c) == SelectSeq(t, LAMBDA x : x # c)

\* _get_email_body has fallen back to the HTML part
HtmlFallback ==
    /\ BodyGot
    /\ ~Truthy(BodyParts(inp.email_message).text)
    /\ Truthy(BodyParts(inp.email_message).html)

\* C5: when _get_email_body falls back to an HTML part, the text returned
\* is, the linefeeds that join its pieces aside, the text of the HTML that
\* lies outside every script and style element: nothing that was inside
\* such an element is in it.
C5_NoScriptOrStyle ==
    HtmlFallback =>
        Without(ret.value, "\n") = Strip(Outside(BodyParts(inp.email_message).html))

\* C5: the fallback returned text of a document that holds a style element
\* with content
C5_Witness ==
    /\ HtmlFallback
    /\ ret.value # <<>>
    /\ \E i \in 1..Len(BodyParts(inp.email_message).html) :
          /\ ElementAt(BodyParts(inp.email_message).html, i) = "style"
          /\ BodyParts(inp.email_message).html[i] = "a"

----------------------------------------------------------------------------
(* The properties of the retried operations *)

\* the number of HTTP failures the provider's answers start with
RECURSIVE HttpPrefix(_)
HttpPrefix(script) ==
    IF script # <<>> /\ IsHttp(Head(script)) THEN 1 + HttpPrefix(Tail(script)) ELSE 0

\* a call of one of the three operations has ended
Retried == pc = "done" /\ op \in {"list_emails", "modify_labels", "trash_email"}

\* the provider's answers to the operation's request and the requests made
AnswersGiven == IF op = "list_emails" THEN inp.env.script ELSE inp.script
Attempts ==
    Requests(calls, IF op = "list_emails" THEN "list"
                    ELSE IF op = "modify_labels" THEN "modify" ELSE "trash")

\* the hints printed for a refused listing
Hints == SelectSeq(calls, LAMBDA c : c = Printed("Permission denied"))

\* C6: for list_emails, modify_labels and trash_email: when every attempt
\* meets an HTTP error the request is made exactly 3 times and the call
\* ends in an error; when an attempt is served after fewer than 3 HTTP
\* errors no further attempt is made and the call ends as that attempt
\* does, returning its result; every 403 met by list_emails prints the
\* hint, and the error is not swallowed.
C6_ThreeAttempts ==
    Retried =>
        /\ HttpPrefix(AnswersGiven) >= 3 =>
              (Len(Attempts) = 3 /\ ret.kind = "raise")
        /\ (HttpPrefix(AnswersGiven) < 3
               /\ AnswersGiven[HttpPrefix(AnswersGiven) + 1] = "ok") =>
              /\ Len(Attempts) = HttpPrefix(AnswersGiven) + 1
              /\ op # "list_emails" => (ret.kind = "return" /\ ret.value = TRUE)
              /\ (op = "list_emails"
                     /\ \A k \in 1..Len(inp.env.gets) :
                           inp.env.gets[k].script[1] # "OSError") =>
                    /\ ret.kind = "return"
                    /\ \A k \in 1..Len(ret.value) :
                          \E j \in 1..Len(inp.env.refs) :
                              ret.value[k].id = inp.env.refs[j]
        /\ op = "list_emails" =>
              Len(Hints) = Cardinality({i \in 1..Len(Attempts) :
                                           AnswersGiven[i] = "Http403"})
        /\ \A i \in 1..Len(Attempts) : IsHttp(AnswersGiven[i]) =>
              (i = Len(Attempts) => ret.kind = "raise")

\* C6: a listing refused with 403 at every attempt was asked for 3 times,
\* the hint was printed each time and the call ended in an error
C6_Witness ==
    /\ Retried /\ op = "list_emails"
    /\ \A i \in 1..3 : AnswersGiven[i] = "Http403"
    /\ Len(Attempts) = 3 /\ Len(Hints) = 3
    /\ ret.kind = "raise"

\* C7: a get_email_details call whose provider request fails with an HTTP
\* error is retried: the get request is made again until it is served or
\* 3 attempts are made.
C7_GetRetried ==
    (pc = "done" /\ op = "get_email_details" /\ IsHttp(inp.env.script[1])) =>
        Len(Requests(calls, "get")) =
            IF HttpPrefix(inp.env.script) >= 3 THEN 3
            ELSE HttpPrefix(inp.env.script) + 1

\* C9: modify_labels and trash_email return True exactly when the provider
\* request was served, and a call whose provider request fails returns a
\* falsy value to the caller.
C9_FalsyOnFailure ==
    (pc = "done" /\ op \in {"modify_labels", "trash_email"}) =>
        /\ ret.kind = "return"
        /\ ret.value = TRUE <=> inp.script[Len(Attempts)] = "ok"

----------------------------------------------------------------------------
(* The properties of the commands *)

\* a pass of the scan loop has carried out what the user typed
Scanned == op \in {"scan_command", "scan_view"}

\* the action typed and the messages it names
ScanAction ==
    IF op = "scan_view" THEN Lower(Strip(inp.typed))
    ELSE IF Split(Lower(Strip(inp.typed))) = <<>> THEN <<>>
    ELSE Parse(Lower(Strip(inp.typed)), Len(emails)).action
ScanTargets ==
    IF op = "scan_view" THEN {inp.full_email.id}
    ELSE {emails[i].id : i \in
             {Parse(Lower(Strip(inp.typed)), Len(emails)).valid_indices[k] :
                 k \in 1..Len(Parse(Lower(Strip(inp.typed)), Len(emails)).valid_indices)}}

\* the requests made of the provider that change a message or send one,
\* and the client calls for them other than modify_labels
Mutations == SelectSeq(calls, LAMBDA c : c.api \in {"modify", "trash", "send"})
OtherCalls == SelectSeq(calls, LAMBDA c : c.api \in {"trash_email", "send_email"})

\* C8: in the scan loop the archive action issues modify requests whose
\* removeLabelIds is exactly [INBOX] and whose addLabelIds is empty, the
\* unread action modify requests whose addLabelIds is exactly [UNREAD] and
\* whose removeLabelIds is empty, each for a message the action names and
\* at least one when it names a message; neither issues a trash or a send
\* request.
C8_LabelsOnly ==
    (Scanned /\ ScanAction \in {<<"a">>, <<"u">>}) =>
        /\ \A i \in 1..Len(Mutations) :
              /\ Mutations[i].api = "modify"
              /\ Mutations[i].id \in ScanTargets
              /\ Mutations[i].body =
                    IF ScanAction = <<"a">>
                    THEN [addLabelIds |-> <<>>, removeLabelIds |-> <<"INBOX">>]
                    ELSE [addLabelIds |-> <<"UNREAD">>, removeLabelIds |-> <<>>]
        /\ ScanTargets # {} => Mutations # <<>>
        /\ OtherCalls = <<>>

\* C8: two messages were archived from the list in one command
C8_Witness ==
    /\ Scanned /\ op = "scan_command" /\ ScanAction = <<"a">>
    /\ Cardinality(ScanTargets) = 2
    /\ Len(Mutations) = 2
    /\ Mutations[1].id # Mutations[2].id

\* the send command has run
Commanded == pc = "done" /\ op = "cmd_send"

\* the calls of the client's send_email
SendCalls == Requests(calls, "send_email")

\* C10 as stated: the send command with --to, -s and -b given calls the
\* client's send_email exactly once, with the --to values, the -s value and
\* the -b value.
C10_AsStated ==
    (Commanded /\ inp.args.subject # NoneStr /\ inp.args.body # NoneStr) =>
        /\ Len(SendCalls) = 1
        /\ SendCalls[1].kwargs.recipients = inp.args.recipients
        /\ SendCalls[1].kwargs.subject = inp.args.subject
        /\ SendCalls[1].kwargs.body = inp.args.body

\* C10: the send command with --to, -s and a non-empty -b given and no
\* --file, once the client is constructed, calls the client's send_email
\* exactly once, with the --to values, the -s value and the -b value.
C10_SendPassesArguments ==
    (Commanded /\ inp.env.client = "ok"
        /\ inp.args.subject # NoneStr /\ Truthy(inp.args.body)
        /\ ~TruthyId(inp.args.input_file)) =>
        /\ Len(SendCalls) = 1
        /\ SendCalls[1].kwargs.recipients = inp.args.recipients
        /\ SendCalls[1].kwargs.subject = inp.args.subject
        /\ SendCalls[1].kwargs.body = inp.args.body

\* C10: the command ran with a body given while another was piped in, and
\* the mail was sent
C10_Witness ==
    /\ Commanded /\ inp.env.client = "ok"
    /\ inp.args.subject = <<"Y", "o">> /\ inp.args.body = <<"H", "i">>
    /\ ~TruthyId(inp.args.input_file)
    /\ ~inp.env.isatty /\ inp.env.stdin = <<"i", "n">>
    /\ Len(SendCalls) = 1 /\ Len(SendRequests) = 1

----------------------------------------------------------------------------
(* The properties of the scan loop *)

\* the words of the command typed at the prompt "Action"
CommandTyped == Split(Lower(Strip(inp.typed)))

\* a command "d", "a" or "u" followed by further words has been carried out
MultiCommanded ==
    /\ op = "scan_command"
    /\ Len(CommandTyped) > 1
    /\ CommandTyped[1] \in {<<"d">>, <<"a">>, <<"u">>}

\* the numbers typed after the action that lie in the range of the listing,
\* in the order typed
NumbersTyped ==
    SelectSeq([k \in 1..Len(CommandTyped) - 1 |->
                  IF IntOk(CommandTyped[k + 1]) THEN ParseInt(CommandTyped[k + 1]) ELSE 0],
              LAMBDA i : 1 <= i /\ i <= Len(emails))

\* the calls of the client that act on a message
ActionCalls == SelectSeq(calls, LAMBDA c : c.api \in {"trash_email", "modify_labels"})

\* the provider serves every request of the command at once
AllServed == \A k \in 1..Len(inp.env.scripts) : inp.env.scripts[k] = Served

\* C11: in scan mode a command "d", "a" or "u" followed by numbers applies
\* its action (trash_email, modify_labels removing INBOX, modify_labels
\* adding UNREAD) to the message shown at each in-range number, once per
\* number given and in the order typed; "d" only when the confirmation is
\* accepted.
C11_MultiAction ==
    (MultiCommanded /\ AllServed) =>
        IF CommandTyped[1] = <<"d">> /\ ~inp.env.confirm /\ NumbersTyped # <<>>
        THEN ActionCalls = <<>>
        ELSE ActionCalls =
                [k \in 1..Len(NumbersTyped) |->
                    ActionCall(CommandTyped[1], emails[NumbersTyped[k]].id)]

\* the places in the log of the command where a confirmation of a deletion
\* was answered so, and those where a message was trashed
Confirmations(answer) ==
    {j \in 1..Len(calls) :
        /\ calls[j].api = "prompt"
        /\ calls[j].text \in {"Delete email?", "Delete emails?"}
        /\ calls[j].answer = answer}
Trashings == {i \in 1..Len(calls) : calls[i].api \in {"trash_email", "trash"}}

\* C17: in the scan loop every trash_email call, and every trash request it
\* makes, comes after a confirmation answered yes in the same command, from
\* the list as from the single-message view; a command whose confirmation
\* was declined trashes nothing.
C17_ConfirmedTrash ==
    Scanned =>
        /\ \A i \in Trashings : \E j \in Confirmations(TRUE) : j < i
        /\ Confirmations(FALSE) # {} => Trashings = {}

\* C17: "d 1 2" was typed at the list and the confirmation declined
C17_Witness ==
    /\ op = "scan_command"
    /\ CommandTyped = <<<<"d">>, <<"1">>, <<"2">>>> /\ Len(emails) = 2
    /\ Confirmations(FALSE) # {}
    /\ pc = "scan_loop"

\* the ids of the messages of the most recent listing
Listed_ids == {emails[i].id : i \in 1..Len(emails)}

\* the numbers typed anywhere in the command that lie in 1..len(listing)
InRange ==
    {n \in 1..Len(emails) :
        \E k \in 1..Len(CommandTyped) :
            /\ CommandTyped[k] # <<>> /\ IntOk(CommandTyped[k])
            /\ ParseInt(CommandTyped[k]) = n}

\* the requests made of the provider, and the ids of the messages that the
\* client calls and the requests of the command name
ProviderCalls ==
    SelectSeq(calls, LAMBDA c : c.api \in {"list", "get", "modify", "trash", "send"})
Targets ==
    {calls[i].id : i \in {j \in 1..Len(calls) : calls[j].api \in {"get", "modify", "trash"}}}
    \cup {calls[i].kwargs.msg_id :
             i \in {j \in 1..Len(calls) :
                       calls[j].api \in {"get_email_details", "trash_email",
                                         "modify_labels"}}}
    \cup {calls[i].kwargs.reply_to_id :
             i \in {j \in 1..Len(calls) : calls[j].api = "send_email"}}

\* C16: every trash, label change, detail fetch or reply of a scan command
\* names a message of the most recent listing; from the prompt "Action" it
\* names a message shown at a number typed within 1..len(listing), and a
\* command with no such number makes no request of the provider.
C16_IndexValidation ==
    /\ Scanned => Targets \subseteq Listed_ids
    /\ op = "scan_command" =>
          /\ Targets \subseteq {emails[n].id : n \in InRange}
          /\ InRange = {} => ProviderCalls = <<>>

\* C16: "a 0 1" or the like: a command with a number out of range and one
\* in range changed the one message in range
C16_Witness ==
    /\ op = "scan_command"
    /\ Len(CommandTyped) = 3 /\ CommandTyped[1] = <<"a">>
    /\ CommandTyped[2] \in {<<"0">>, <<"3">>} /\ CommandTyped[3] = <<"1">>
    /\ Len(Mutations) = 1 /\ Mutations[1].id = emails[1].id

----------------------------------------------------------------------------
(* The properties of the construction of the client *)

Constructed == pc = "done" /\ op = "GmailClient"

\* the steps of _get_credentials and __init__ of the kind api
Steps(api) == SelectSeq(calls, LAMBDA c : c.api = api)

\* C12: whenever _get_credentials returns credentials obtained by a refresh
\* or by the interactive flow, the token file has been written with those
\* credentials; when the stored credentials are already valid it returns
\* them without a refresh, without the flow and without writing the file.
C12_CredentialsPersisted ==
    (Constructed /\ ret.kind = "return") =>
        /\ ret.value.origin \in {"refresh", "flow"} =>
              /\ Steps("write") = <<[api |-> "write", creds |-> ret.value]>>
              /\ ret.token = [file |-> "creds", creds |-> ret.value]
        /\ (inp.env.token.file = "creds" /\ inp.env.token.creds.valid) =>
              /\ ret.value = inp.env.token.creds
              /\ Steps("refresh") = <<>> /\ Steps("flow") = <<>>
              /\ Steps("write") = <<>>
              /\ ret.token = inp.env.token

\* C12: expired credentials were refreshed and written to the token file
C12_Witness ==
    /\ Constructed /\ ret.kind = "return"
    /\ ret.value.origin = "refresh"
    /\ inp.env.token.file = "creds" /\ inp.env.token.creds.expired
    /\ ret.token = [file |-> "creds", creds |-> ret.value]

\* no usable stored credentials: no token file, one that cannot be parsed,
\* or credentials that are not valid and cannot be refreshed
NothingUsable ==
    \/ inp.env.token.file \in {"absent", "garbage"}
    \/ /\ inp.env.token.file = "creds"
       /\ ~inp.env.token.creds.valid
       /\ ~(inp.env.token.creds.expired /\ inp.env.token.creds.refresh_token)

\* C13: with no usable stored credentials and no client-secrets file the
\* construction of GmailClient fails with a FileNotFoundError that names
\* the credentials path; no token file is written, the interactive flow is
\* not started and no service is built.
C13_NoSecretsFile ==
    (Constructed /\ NothingUsable /\ ~inp.env.secrets) =>
        /\ ret.kind = "raise" /\ ret.exc = "FileNotFoundError"
        /\ ret.names = "credentials_path"
        /\ Steps("write") = <<>> /\ ret.token = inp.env.token
        /\ Steps("flow") = <<>>
        /\ Steps("build") = <<>>

\* C13: the construction failed for stored credentials that are invalid and
\* hold no refresh token
C13_Witness ==
    /\ Constructed /\ NothingUsable /\ ~inp.env.secrets
    /\ inp.env.token.file = "creds" /\ inp.env.token.creds.expired
    /\ ret.kind = "raise" /\ ret.exc = "FileNotFoundError"

\* the stored credentials have expired, hold a refresh token, and their
\* refresh raised RefreshError
RefreshFailed ==
    /\ Constructed
    /\ inp.env.token.file = "creds"
    /\ inp.env.token.creds.expired /\ inp.env.token.creds.refresh_token
    /\ inp.env.refresh = "RefreshError"

\* the steps of _get_credentials in the order taken
StepsTaken == [i \in 1..Len(calls) |-> calls[i].api]

\* C21: when the stored credentials are expired and their refresh raises
\* RefreshError, the token file is deleted and the acquisition starts over
\* once: there is one refresh and one unlink and nothing before them.  With
\* no client-secrets file it ends with FileNotFoundError and the token file
\* gone; otherwise the interactive flow is started once and, unless the
\* flow or the writing of the token file itself fails, it ends with the
\* credentials of the flow, written to the token file.
C21_RefreshRecovery ==
    RefreshFailed =>
        /\ Len(Steps("refresh")) = 1 /\ Len(Steps("unlink")) = 1
        /\ Len(calls) >= 2 /\ StepsTaken[1] = "refresh" /\ StepsTaken[2] = "unlink"
        /\ IF ~inp.env.secrets
           THEN /\ StepsTaken = <<"refresh", "unlink">>
                /\ ret.kind = "raise" /\ ret.exc = "FileNotFoundError"
                /\ ret.token = [file |-> "absent"]
           ELSE IF inp.env.flow = "ok" /\ inp.env.write = "ok"
           THEN /\ StepsTaken = <<"refresh", "unlink", "flow", "write", "build">>
                /\ ret.kind = "return" /\ ret.value.origin = "flow"
                /\ ret.token = [file |-> "creds", creds |-> ret.value]
           ELSE /\ StepsTaken = <<"refresh", "unlink", "flow">>
                /\ ret.kind = "raise"
                /\ ret.exc = IF inp.env.flow # "ok" THEN inp.env.flow ELSE inp.env.write
                /\ ret.token = [file |-> "absent"]

\* C21: after the failed refresh the interactive flow gave credentials and
\* they were written to the token file
C21_Witness ==
    /\ RefreshFailed /\ inp.env.secrets
    /\ Len(Steps("unlink")) = 1
    /\ ret.kind = "return" /\ ret.value.origin = "flow"
    /\ ret.token = [file |-> "creds", creds |-> ret.value]

----------------------------------------------------------------------------
(* The properties of _sanitize_body *)

BodySanitized == pc = "done" /\ op = "_sanitize_body"

\* the fenced blocks of the text: <<a, b, z>> where a holds a fence, a
\* language word (possibly empty) fills a+1..b-1, b holds a linefeed and z
\* is the next fence after b
FencedBlocks(t) ==
    {x \in (1..Len(t)) \X (1..Len(t)) \X (1..Len(t)) :
        /\ x[1] < x[2] /\ x[2] < x[3]
        /\ t[x[1]] = Fence /\ t[x[2]] = "\n" /\ t[x[3]] = Fence
        /\ \A i \in x[1] + 1..x[2] - 1 : IsWord(t[i])
        /\ \A i \in x[2] + 1..x[3] - 1 : t[i] # Fence}

\* C14: if the text holds a fenced block, the result of _sanitize_body is
\* the content of the first one, stripped; otherwise it is the text,
\* stripped.  _sanitize_body of the result is the result.
C14_SanitizeBody ==
    BodySanitized =>
        /\ IF FencedBlocks(inp.text) = {}
           THEN ret.value = Strip(inp.text)
           ELSE \E x \in FencedBlocks(inp.text) :
                   /\ \A y \in FencedBlocks(inp.text) : x[1] <= y[1]
                   /\ ret.value = Strip(SubSeq(inp.text, x[2] + 1, x[3] - 1))
        /\ sanitize_body(ret.value) = ret.value

\* C14: the text holds a block with a language word and whitespace before
\* its content
C14_Witness ==
    /\ BodySanitized
    /\ inp.text = <<Fence, "a", "\n", " ", "a", Fence>>
    /\ ret.value = <<"a">>

----------------------------------------------------------------------------
(* Determinism and the fields of the client *)

----------------------------------------------------------------------------
(* The properties of GmailClient.send_email when a request fails *)

\* send_email has been called by a caller that holds a client
SendCalled == pc \in {"done", "repeated"} /\ op = "send_email"

\* C18: one call of send_email makes at most one send request of the
\* provider, and the programs make no more send requests than calls of
\* send_email; a send request that fails is not made again, and its
\* HttpError reaches the caller of send_email.
C18_SendOnce ==
    /\ SendCalled =>
          /\ Len(SendRequests) <= 1
          /\ (SendRequests # <<>> /\ inp.env.send # "ok") =>
                /\ ret.kind = "raise"
                /\ ret.exc = IF IsHttp(inp.env.send) THEN "HttpError" ELSE inp.env.send
    /\ op \in {"cmd_send", "scan_command", "scan_view"} =>
          Len(SendRequests) <= Len(SendCalls)

\* C18: the one send request of a call failed with an HTTP error
C18_Witness ==
    /\ SendCalled
    /\ IsHttp(inp.env.send)
    /\ Len(SendRequests) = 1
    /\ ret.kind = "raise" /\ ret.exc = "HttpError"

\* send_email was called with reply_to_id or forward_id and the provider
\* failed the fetch of the original with an HTTP error, so that
\* get_email_details returned None
FetchFailed ==
    /\ SendCalled
    /\ TruthyId(inp.args.reply_to_id) \/ TruthyId(inp.args.forward_id)
    /\ IsHttp(inp.env.get.script[1])

\* the message of the send request
SentMessage == SendRequests[1].body.raw.urlsafe_b64

\* C19: when send_email is called with reply_to_id or forward_id and the
\* fetch of the original gives None, the original is asked for once and the
\* message is still sent: with no threadId, with no quoted block in its text
\* or its HTML, and with the caller's subject (empty when the caller gave
\* none); send_email raises only if the send itself fails.
C19_SentWithoutOriginal ==
    FetchFailed =>
        /\ Len(Requests(calls, "get")) = 1
        /\ Len(SendRequests) = 1
        /\ DOMAIN SendRequests[1].body = {"raw"}
        /\ SentMessage.text = sanitize_body(inp.args.body)
        /\ \A i \in 1..Len(SentMessage.html) : SentMessage.html[i] # "<br><br><blockquote>"
        /\ SentMessage.Subject = IF Truthy(inp.args.subject) THEN inp.args.subject ELSE <<>>
        /\ IF inp.env.send = "ok" THEN ret = Return(inp.env.id)
           ELSE ret.kind = "raise" /\ ret.exc = "HttpError"

\* C19: a reply with no subject of its own was sent though its original
\* could not be fetched
C19_Witness ==
    /\ FetchFailed
    /\ inp.args.reply_to_id = "m1" /\ inp.args.subject = <<>>
    /\ inp.env.send = "ok"
    /\ ret = Return("s1")
    /\ SentMessage.Subject = <<>>

----------------------------------------------------------------------------
(* The properties of a message that is both a reply and a forward *)

\* reply_to_id and forward_id are both given, to send_email or on the
\* command line of astropost send
BothGiven ==
    /\ pc \in {"done", "repeated"} /\ op \in {"send_email", "cmd_send"}
    /\ TruthyId(inp.args.reply_to_id) /\ TruthyId(inp.args.forward_id)

\* the original the provider holds, as the call looks at it
FetchedThread ==
    IF op = "send_email" THEN inp.env.get.msg.threadId ELSE inp.env.mail.get.msg.threadId

\* C20: with reply_to_id and forward_id both given (astropost send passes
\* both on) the message is a reply only: the only original asked for is the
\* reply's, no message sent holds a "Forwarded message" block in its text or
\* its HTML, a threadId sent is the one of the reply's original, and
\* send_email does what it does with the same arguments and no forward_id.
C20_ReplyOnly ==
    BothGiven =>
        /\ \A i \in 1..Len(SendCalls) :
              /\ SendCalls[i].kwargs.reply_to_id = inp.args.reply_to_id
              /\ SendCalls[i].kwargs.forward_id = inp.args.forward_id
        /\ \A i \in 1..Len(calls) :
              calls[i].api = "get" => calls[i].id = inp.args.reply_to_id
        /\ \A i \in 1..Len(SendRequests) :
              /\ \A k \in 1..Len(SendRequests[i].body.raw.urlsafe_b64.text) :
                    SendRequests[i].body.raw.urlsafe_b64.text[k]
                        # "---------- Forwarded message ---------"
              /\ \A k \in 1..Len(SendRequests[i].body.raw.urlsafe_b64.html) :
                    SendRequests[i].body.raw.urlsafe_b64.html[k]
                        # "---------- Forwarded message ---------"
              /\ "threadId" \in DOMAIN SendRequests[i].body =>
                    /\ Len(Requests(calls, "get")) = 1
                    /\ Printed("Error fetching email") \notin
                          {calls[k] : k \in 1..Len(calls)}
                    /\ SendRequests[i].body.threadId = FetchedThread
        /\ op = "send_email" =>
              /\ calls = send_email([inp.args EXCEPT !.forward_id = None], inp.env).calls
              /\ ret = Outcome(send_email([inp.args EXCEPT !.forward_id = None], inp.env))

\* C20: a message with both ids and no subject of its own went out as a
\* reply in the thread of the reply's original
C20_Witness ==
    /\ BothGiven /\ op = "send_email"
    /\ ~Truthy(inp.args.subject)
    /\ Len(Requests(calls, "get")) = 1
    /\ Len(SendRequests) = 1
    /\ "threadId" \in DOMAIN SendRequests[1].body
    /\ ret = Return("s1")

----------------------------------------------------------------------------
(* The properties of the list request *)

\* the list requests made of the provider
ListRequests == Requests(calls, "list")

\* C22: every list request of list_emails, a retried one too, carries q and
\* no labelIds when a query that is not empty is given; else exactly the
\* label_ids given when they are not empty; else labelIds = [INBOX].  Every
\* list request of the programs carries exactly one of q and labelIds.
C22_FilterPrecedence ==
    /\ \A i \in 1..Len(ListRequests) :
          ("q" \in DOMAIN ListRequests[i].kwargs)
              # ("labelIds" \in DOMAIN ListRequests[i].kwargs)
    /\ (pc = "done" /\ op = "list_emails") =>
          /\ ListRequests # <<>>
          /\ \A i \in 1..Len(ListRequests) :
                /\ ListRequests[i].kwargs.userId = "me"
                /\ ListRequests[i].kwargs.maxResults = inp.max_results
                /\ IF inp.query # NoneStr /\ Len(inp.query) > 0
                   THEN /\ DOMAIN ListRequests[i].kwargs = {"userId", "maxResults", "q"}
                        /\ ListRequests[i].kwargs.q = inp.query
                   ELSE /\ DOMAIN ListRequests[i].kwargs
                              = {"userId", "maxResults", "labelIds"}
                        /\ ListRequests[i].kwargs.labelIds =
                              IF inp.label_ids # NoneStr /\ Len(inp.label_ids) > 0
                              THEN inp.label_ids ELSE <<"INBOX">>
    /\ op = "scan_fetch" =>
          \A i \in 1..Len(ListRequests) : ListRequests[i].kwargs.labelIds = <<"INBOX">>

\* C22: list_emails was called with a query and with label_ids, and its
\* list request was retried
C22_Witness ==
    /\ pc = "done" /\ op = "list_emails"
    /\ inp.query = <<"q">> /\ inp.label_ids = <<"UNREAD">>
    /\ Len(ListRequests) = 2
    /\ ListRequests[2].kwargs.q = <<"q">>

----------------------------------------------------------------------------
(* The properties of the attachments *)

\* send_email was called with attachment paths of which one does not exist;
\* the paths that exist are files that can be read
PathMissing ==
    /\ SendCalled
    /\ Truthy(inp.args.attachments)
    /\ \E k \in 1..Len(inp.args.attachments) : inp.args.attachments[k] \notin Files

\* the paths given that exist, in the order given
Existing == SelectSeq(inp.args.attachments, LAMBDA path : path \in Files)

\* C23: an attachment path that does not exist is skipped with a warning
\* and does not end send_email: there is one warning for each missing path,
\* the send request is made exactly once, and its message holds one
\* attachment for each existing path, in the order given, and none for a
\* missing path; when the provider serves the send the id is returned.
C23_MissingAttachmentSkipped ==
    PathMissing =>
        /\ Len(SelectSeq(calls, LAMBDA c : c = Printed("Attachment not found")))
              = Len(inp.args.attachments) - Len(Existing)
        /\ Len(SendRequests) = 1
        /\ Len(SentMessage.attachments) = Len(Existing)
        /\ \A k \in 1..Len(Existing) : SentMessage.attachments[k].filename = Existing[k]
        /\ inp.env.send = "ok" => ret = Return(inp.env.id)

\* C23: a missing path came before a path that exists, and the message was
\* sent with the one attachment
C23_Witness ==
    /\ PathMissing
    /\ inp.args.attachments = <<"gone.txt", "b.pdf">>
    /\ Len(SendRequests) = 1
    /\ SentMessage.attachments = <<[filename |-> "b.pdf", ctype |-> "application/pdf"]>>
    /\ ret = Return("s1")

====
